---- MODULE Spec2Model ----
(***************************************************************************)
(* rss-telegram-feed: the channel service (filter engine, ingestion        *)
(* pipeline, channel monitor) and the file-backed channel and message      *)
(* repositories, modelled as state machines.                               *)
(*                                                                         *)
(* A Go string is a sequence of bytes holding UTF-8 text.  The model keeps *)
(* a string as its sequence of code points and encodes it with Bytes where *)
(* the code works on bytes.                                                *)
(***************************************************************************)
EXTENDS Integers, Sequences, FiniteSets, TLC

(***************************************************************************)
(* Strings                                                                 *)
(***************************************************************************)

\* Code points used in texts and keywords: 'A', 'a', U+00C4, U+00E4.
Runes == {65, 97, 196, 228}

\* UTF-8 encoding of one code point below U+0800.
RuneBytes(r) == IF r < 128 THEN <<r>> ELSE <<192 + (r \div 64), 128 + (r % 64)>>

RECURSIVE Bytes(_)
\* The bytes of a string: the bytes of its code points, in order.
Bytes(s) ==
    IF s = <<>> THEN <<>>
    ELSE IF Len(s) = 1 THEN RuneBytes(s[1])
    ELSE LET h == Len(s) \div 2
         IN  Bytes(SubSeq(s, 1, h)) \o Bytes(SubSeq(s, h + 1, Len(s)))

\* service.go toLower, one byte: only 'A'..'Z' are folded.
toLowerByte(c) == IF c >= 65 /\ c <= 90 THEN c + 32 ELSE c

\* service.go toLower: byte by byte.
toLower(b) == [i \in 1..Len(b) |-> toLowerByte(b[i])]

RECURSIVE scanFrom(_, _, _)
\* The loop of containsSubstring from offset i (0-based) on.
scanFrom(textLower, substrLower, i) ==
    IF i > Len(textLower) - Len(substrLower) THEN FALSE
    ELSE IF SubSeq(textLower, i + 1, i + Len(substrLower)) = substrLower THEN TRUE
    ELSE scanFrom(textLower, substrLower, i + 1)

\* service.go containsSubstring, on bytes.
containsSubstring(text, substr) == scanFrom(toLower(text), toLower(substr), 0)

\* A mutant of contains: the empty keyword is searched for like any other.
containsEmptyToo(text, keyword) ==
    LET t == Bytes(text)
        k == Bytes(keyword)
    IN  Len(t) >= Len(k) /\ (t = k \/ containsSubstring(t, k))

\* service.go contains, on strings.
contains(text, keyword) ==
    LET t == Bytes(text)
        k == Bytes(keyword)
    IN  Len(k) > 0 /\ Len(t) >= Len(k) /\ (t = k \/ containsSubstring(t, k))

\* strings.ToLower on one code point (the flat handler's containsKeyword).
ToLowerRune(r) == IF r = 65 THEN 97 ELSE IF r = 196 THEN 228 ELSE r

\* strings.ToLower.
StringsToLower(s) == [i \in 1..Len(s) |-> ToLowerRune(s[i])]

\* strings.Contains, on the encoded strings.
StringsContains(s, sub) ==
    LET sb == Bytes(s)
        ub == Bytes(sub)
    IN  \E i \in 0..(Len(sb) - Len(ub)) : SubSeq(sb, i + 1, i + Len(ub)) = ub

\* bot_handler containsKeyword (flat implementation).
containsKeyword(text, keyword) ==
    IF Len(Bytes(keyword)) = 0 THEN FALSE
    ELSE StringsContains(StringsToLower(text), StringsToLower(keyword))

(***************************************************************************)
(* Filter engine                                                           *)
(***************************************************************************)

FilterTypeKeywords == "keywords"
FilterTypeExcludeKeywords == "exclude_keywords"
FilterTypeAuthor == "author"
FilterTypes == {FilterTypeKeywords, FilterTypeExcludeKeywords, FilterTypeAuthor}

\* domain.Filter
Filter(t, ks, e) == [Type |-> t, Keywords |-> ks, Enabled |-> e]

RECURSIVE anyKeyword(_, _, _)
\* The keyword loops of passesFilters: is some keyword from index i on contained?
anyKeyword(text, keywords, i) ==
    IF i > Len(keywords) THEN FALSE
    ELSE IF contains(text, keywords[i]) THEN TRUE
    ELSE anyKeyword(text, keywords, i + 1)

\* A mutant of filterRejects: a disabled filter is applied too.
filterRejectsDisabledToo(filter, text) ==
    \/ filter.Type = FilterTypeKeywords /\ ~anyKeyword(text, filter.Keywords, 1)
    \/ filter.Type = FilterTypeExcludeKeywords /\ anyKeyword(text, filter.Keywords, 1)

\* One iteration of the loop of passesFilters: does this filter return false?
filterRejects(filter, text) ==
    /\ filter.Enabled
    /\ \/ filter.Type = FilterTypeKeywords /\ ~anyKeyword(text, filter.Keywords, 1)
       \/ filter.Type = FilterTypeExcludeKeywords /\ anyKeyword(text, filter.Keywords, 1)

\* A mutant of filterLoop: the filter at i decides alone.
filterLoopFirstOnly(filters, text, i) ==
    IF i > Len(filters) THEN TRUE ELSE ~filterRejects(filters[i], text)

RECURSIVE filterLoop(_, _, _)
\* The loop of passesFilters from filter i on: the first rejecting filter wins.
filterLoop(filters, text, i) ==
    IF i > Len(filters) THEN TRUE
    ELSE IF filterRejects(filters[i], text) THEN FALSE
    ELSE filterLoop(filters, text, i + 1)

\* Service.passesFilters(channel, text), on the channel's filter list.
passesFilters(filters, text) ==
    IF Len(filters) = 0 THEN TRUE ELSE filterLoop(filters, text, 1)

(***************************************************************************)
(* Entity store: one file per record                                       *)
(***************************************************************************)

RECURSIVE FmtNat(_)
\* fmt.Sprintf("%d", n) for n >= 0: the decimal digits, as ASCII codes.
FmtNat(n) == IF n < 10 THEN <<48 + n>> ELSE FmtNat(n \div 10) \o <<48 + (n % 10)>>

\* fmt.Sprintf("%d", n)
FmtInt(n) == IF n < 0 THEN <<45>> \o FmtNat(0 - n) ELSE FmtNat(n)

\* ".json"
DotJson == <<46, 106, 115, 111, 110>>

\* json.MarshalIndent of a record: the file content that parses back to it.
Marshal(v) == <<"json", v>>

\* A file content json.Unmarshal rejects (a partially written file).
Truncated == <<"truncated">>

\* Does json.Unmarshal accept the content?
Parses(data) == data[1] = "json"

\* json.Unmarshal of a content that parses.
Unmarshal(data) == data[2]

\* A mutant of WriteFile: an existing file is kept as it is.
WriteFileKeepOld(files, path, data) ==
    [p \in DOMAIN files \cup {path} |-> IF p \in DOMAIN files THEN files[p] ELSE data]

\* os.WriteFile succeeding: the file at path is created or replaced.
WriteFile(files, path, data) ==
    [p \in DOMAIN files \cup {path} |-> IF p = path THEN data ELSE files[p]]

\* The states os.WriteFile can leave when it fails: nothing written, or the
\* file truncated or partially written.
WriteFileFailed(files, path) == {files, WriteFile(files, path, Truncated)}

\* A mutant of RemoveFile: the file stays.
RemoveFileKeep(files, path) == files

\* os.Remove succeeding.
RemoveFile(files, path) == [p \in DOMAIN files \ {path} |-> files[p]]

\* domain.Channel
Channel(id, username, title, addedBy, addedAt, filters, lastUpdate, isActive) ==
    [ID |-> id, Username |-> username, Title |-> title, AddedBy |-> addedBy,
     AddedAt |-> addedAt, Filters |-> filters, LastUpdate |-> lastUpdate,
     IsActive |-> isActive]

\* The zero domain.Channel (what a handler holds before it has read one).
ZeroChannel == Channel(<<>>, <<>>, <<>>, 0, 0, <<>>, 0, FALSE)

\* channel FileStorage: the file of a channel id.
ChannelPath(channelID) == channelID \o DotJson

\* message FileStorage.SaveMessage: <directory, file name> of a message.
MessagePath(message) == <<message.ChannelID, FmtInt(message.ID) \o DotJson>>

\* channel FileStorage.GetChannel: the results a call can have.
GetChannel(files, channelID) ==
    LET path == ChannelPath(channelID)
    IN  {[err |-> "read", channel |-> ZeroChannel]} \cup
        (IF path \notin DOMAIN files
            THEN {[err |-> "notfound", channel |-> ZeroChannel]}
         ELSE IF ~Parses(files[path])
            THEN {[err |-> "unmarshal", channel |-> ZeroChannel]}
         ELSE {[err |-> "nil", channel |-> Unmarshal(files[path])]})

\* channel FileStorage.SaveChannel: the results a call can have.
SaveChannel(files, channel) ==
    LET path == ChannelPath(channel.ID)
    IN  {[err |-> "nil", files |-> WriteFile(files, path, Marshal(channel))]} \cup
        {[err |-> "write", files |-> f] : f \in WriteFileFailed(files, path)}

\* message FileStorage.SaveMessage: the results a call can have.
SaveMessage(files, message) ==
    LET path == MessagePath(message)
    IN  {[err |-> "nil", files |-> WriteFile(files, path, Marshal(message))]} \cup
        {[err |-> "write", files |-> f] : f \in WriteFileFailed(files, path)}

\* The channels stored and parseable, by id.
StoredChannels(files) == {Unmarshal(files[p]) : p \in {q \in DOMAIN files : Parses(files[q])}}

\* The messages stored and parseable.
StoredMessages(files) == {Unmarshal(files[p]) : p \in {q \in DOMAIN files : Parses(files[q])}}

(***************************************************************************)
(* State                                                                   *)
(***************************************************************************)

VARIABLES
    channelFiles,   \* <storage>/channels: file name -> content
    messageFiles,   \* <storage>/messages: <directory, file name> -> content
    now,            \* the clock: what the next time.Now() returns
    posts,          \* the channel posts the platform may deliver
    ing,            \* per update goroutine: its place in processChannelPost
    cmds,           \* the commands users may send
    hnd,            \* per command goroutine: its place in the command handler
    allowedUsers,   \* cfg.AllowedUsers
    userFiles,      \* <storage>/users: file name -> content
    channels,       \* Service.channels: the ids the monitor watches
    bot,            \* Service.bot != nil
    cancelled,      \* Service.ctx is cancelled
    wg,             \* Service.wg: the WaitGroup counter
    syncStart,      \* TRUE: Stop is called after Start returned; FALSE: go Start()
    start,          \* Service.Start: its place
    stop,           \* Service.Stop: its place
    loop,           \* Service.monitorLoop: its place
    tick,           \* the ticker: ticks fired so far, and whether one is pending
    units,          \* the sweep goroutines running fetchChannelMessages
    sweeps,         \* per checkChannels call: the ids enumerated, what became of each
    probe           \* a call of passesFilters: its arguments and its result

storeVars == <<channelFiles, messageFiles, now>>
ingestVars == <<posts, ing>>
commandVars == <<cmds, hnd, allowedUsers, userFiles>>
monitorVars == <<channels, bot, cancelled, wg, syncStart, start, stop, loop, tick, units, sweeps>>
vars == <<storeVars, ingestVars, commandVars, monitorVars, probe>>

(***************************************************************************)
(* Bounds                                                                  *)
(***************************************************************************)

\* The goroutines the bot runs update handlers on.
MaxIngests == 2

\* The goroutines the bot runs command handlers on.
MaxCommands == 2

\* The ticks the ticker delivers in a run.
MaxTicks == 1

\* The chats of the model; 42 and 43 stand for two channels.
ChatIds == {42, 43}

\* The time the model stops reading the clock at: no run reads it that often.
MaxTime == 2 * (MaxIngests + MaxCommands + (MaxTicks + 1) * Cardinality(ChatIds)) + 1

(***************************************************************************)
(* Ingestion pipeline: Handler.processChannelPost, Service.ProcessMessage  *)
(***************************************************************************)

Workers == 1..MaxIngests

\* models.Message of a channel post, as far as the pipeline reads it.
Post(chatID, id, text, caption, date) ==
    [ChatID |-> chatID, ID |-> id, Text |-> text, Caption |-> caption, Date |-> date]

ZeroPost == Post(0, 0, <<>>, <<>>, 0)

\* messageDomain.Message
Message(id, channelID, channelName, text, date) ==
    [ID |-> id, ChannelID |-> channelID, ChannelName |-> channelName,
     Text |-> text, Date |-> date]

ZeroMessage == Message(0, <<>>, <<>>, <<>>, 0)

\* A goroutine that has no update yet.
IdleIngest ==
    [pc |-> "idle", post |-> ZeroPost, channel |-> ZeroChannel, text |-> <<>>,
     message |-> ZeroMessage, err |-> "nil", ret |-> "none", logged |-> FALSE]

\* processChannelPost: text := msg.Text, or the caption when the text is empty.
EffectiveText(post) == IF post.Text = <<>> /\ post.Caption # <<>> THEN post.Caption ELSE post.Text

\* A mutant of postIgnored: only a record that does not exist ends the call.
postIgnoredOnlyNotFound(res) ==
    res.err = "notfound" \/ (res.err = "nil" /\ ~res.channel.IsActive)

\* A mutant of postIgnored: the IsActive check is missing.
postIgnoredNoActiveCheck(res) == res.err # "nil"

\* processChannelPost: the post is dropped after the channel lookup.
postIgnored(res) == res.err # "nil" \/ ~res.channel.IsActive

\* Handler.processChannelPost up to the call of ProcessMessage: look the
\* channel up, return when it is unknown or inactive.
ProcessChannelPost(w) ==
    /\ ing[w].pc = "idle"
    /\ \E post \in posts : \E res \in GetChannel(channelFiles, FmtInt(post.ChatID)) :
          ing' = [ing EXCEPT ![w] =
                    IF postIgnored(res)
                    THEN [@ EXCEPT !.pc = "done", !.post = post]
                    ELSE [@ EXCEPT !.pc = "process", !.post = post,
                                   !.channel = res.channel,
                                   !.text = EffectiveText(post)]]
    /\ UNCHANGED <<storeVars, posts, commandVars, monitorVars, probe>>

\* A mutant of filtersReject: the filters are not consulted.
filtersRejectNever(channel, msgText) == FALSE

\* ProcessMessage: if !s.passesFilters(channel, msgText) { return nil }
filtersReject(channel, msgText) == ~passesFilters(channel.Filters, msgText)

\* Service.ProcessMessage, the filter check and the construction of the message.
ProcessMessage(w) ==
    /\ ing[w].pc = "process"
    /\ ing' = [ing EXCEPT ![w] =
                 IF filtersReject(ing[w].channel, ing[w].text)
                 THEN [@ EXCEPT !.pc = "done", !.ret = "nil"]
                 ELSE [@ EXCEPT !.pc = "saveMessage",
                                !.message = Message(ing[w].post.ID,
                                                    ing[w].channel.ID,
                                                    ing[w].channel.Title,
                                                    ing[w].text,
                                                    ing[w].post.Date)]]
    /\ UNCHANGED <<storeVars, posts, commandVars, monitorVars, probe>>

\* ProcessMessage after s.messageRepo.SaveMessage returned err: an error ends
\* the call (processChannelPost logs it), success goes on to the channel.
afterSaveMessage(st, err) ==
    IF err # "nil"
    THEN [st EXCEPT !.pc = "done", !.ret = "error", !.logged = TRUE]
    ELSE [st EXCEPT !.pc = "saveChannel"]

\* Service.ProcessMessage: s.messageRepo.SaveMessage(message).
ProcessSaveMessage(w) ==
    /\ ing[w].pc = "saveMessage"
    /\ \E res \in SaveMessage(messageFiles, ing[w].message) :
          /\ messageFiles' = res.files
          /\ ing' = [ing EXCEPT ![w] = afterSaveMessage([@ EXCEPT !.err = res.err], res.err)]
    /\ UNCHANGED <<channelFiles, now, posts, commandVars, monitorVars, probe>>

\* A mutant of afterSaveChannel: a failed channel save fails the ingest.
afterSaveChannelFailing(st, err) ==
    IF err # "nil"
    THEN [st EXCEPT !.pc = "done", !.ret = "error", !.logged = TRUE]
    ELSE [st EXCEPT !.pc = "done", !.ret = "nil"]

\* ProcessMessage after s.channelRepo.SaveChannel returned err: the error is
\* logged by the service and the call returns nil.
afterSaveChannel(st, err) == [st EXCEPT !.pc = "done", !.ret = "nil"]

\* Service.ProcessMessage: channel.LastUpdate = time.Now(); SaveChannel(channel).
ProcessSaveChannel(w) ==
    /\ ing[w].pc = "saveChannel"
    /\ now < MaxTime
    /\ now' = now + 1
    /\ LET channel == [ing[w].channel EXCEPT !.LastUpdate = now]
       IN  \E res \in SaveChannel(channelFiles, channel) :
              /\ channelFiles' = res.files
              /\ ing' = [ing EXCEPT ![w] =
                           afterSaveChannel([@ EXCEPT !.channel = channel, !.err = res.err],
                                            res.err)]
    /\ UNCHANGED <<messageFiles, posts, commandVars, monitorVars, probe>>

Ingest(w) ==
    \/ ProcessChannelPost(w)
    \/ ProcessMessage(w)
    \/ ProcessSaveMessage(w)
    \/ ProcessSaveChannel(w)

(***************************************************************************)
(* Command handlers: handleAddChannel, handleAddFilter                     *)
(***************************************************************************)

Handlers == 1..MaxCommands

\* A command message: the sender, the first argument (a channel name for
\* addchannel, a channel id for addfilter), the chat b.GetChat resolves the
\* name to (addchannel) and the keywords strings.Split gives (addfilter).
Command(op, from, arg, chatID, title, keywords) ==
    [Op |-> op, From |-> from, Arg |-> arg, ChatID |-> chatID, Title |-> title,
     Keywords |-> keywords]

ZeroCommand == Command("none", 0, <<>>, 0, <<>>, <<>>)

\* strings.TrimPrefix(s, "@")
TrimAt(s) == IF s # <<>> /\ Head(s) = 64 THEN Tail(s) ELSE s

\* reply is the answer the handler sent after it saved the channel.
IdleHandler ==
    [pc |-> "idle", cmd |-> ZeroCommand, channel |-> ZeroChannel, reply |-> "none"]

\* A mutant of IsAuthorized: nobody is turned away.
IsAuthorizedAlways(userID, allowed) == TRUE

\* userService.IsAuthorized
IsAuthorized(userID, allowed) == allowed = {} \/ userID \in allowed

\* A mutant of AddChannel: the set is replaced by the id.
AddChannelAlone(set, channelID) == {channelID}

\* Service.AddChannel
AddChannel(set, channelID) == set \cup {channelID}

\* Service.RemoveChannel
RemoveChannel(set, channelID) == set \ {channelID}

\* handleAddChannel up to h.channelService.SaveChannel: an unauthorized
\* sender, a failing GetChat and a failing save end the command.
HandleAddChannel(h) ==
    /\ hnd[h].pc = "idle"
    /\ now + 1 < MaxTime
    /\ \E cmd \in {c \in cmds : c.Op = "addchannel"} :
          IF ~IsAuthorized(cmd.From, allowedUsers)
          THEN /\ hnd' = [hnd EXCEPT ![h] = [@ EXCEPT !.pc = "done", !.cmd = cmd]]
               /\ UNCHANGED <<channelFiles, now>>
          ELSE \/ /\ hnd' = [hnd EXCEPT ![h] = [@ EXCEPT !.pc = "done", !.cmd = cmd]]
                  /\ UNCHANGED <<channelFiles, now>>
               \/ LET channel == Channel(FmtInt(cmd.ChatID), TrimAt(cmd.Arg), cmd.Title,
                                         cmd.From, now, <<>>, now + 1, TRUE)
                  IN  \E res \in SaveChannel(channelFiles, channel) :
                         /\ channelFiles' = res.files
                         /\ now' = now + 2
                         /\ hnd' = [hnd EXCEPT ![h] =
                                      [@ EXCEPT !.pc = IF res.err = "nil" THEN "addChannel"
                                                       ELSE "done",
                                                !.cmd = cmd, !.channel = channel]]
    /\ UNCHANGED <<messageFiles, ingestVars, cmds, allowedUsers, userFiles, monitorVars, probe>>

\* handleAddChannel: h.channelService.AddChannel(channel.ID), answer "Channel
\* added".
HandleAddChannelMonitor(h) ==
    /\ hnd[h].pc = "addChannel"
    /\ channels' = AddChannel(channels, hnd[h].channel.ID)
    /\ hnd' = [hnd EXCEPT ![h] = [@ EXCEPT !.pc = "done", !.reply = "registered"]]
    /\ UNCHANGED <<storeVars, ingestVars, cmds, allowedUsers, userFiles, bot, cancelled, wg,
                   syncStart, start, stop, loop, tick, units, sweeps, probe>>

\* handleAddFilter up to h.channelService.GetChannel.
HandleAddFilter(h) ==
    /\ hnd[h].pc = "idle"
    /\ \E cmd \in {c \in cmds : c.Op = "addfilter"} :
          IF ~IsAuthorized(cmd.From, allowedUsers)
          THEN hnd' = [hnd EXCEPT ![h] = [@ EXCEPT !.pc = "done", !.cmd = cmd]]
          ELSE \E res \in GetChannel(channelFiles, cmd.Arg) :
                  hnd' = [hnd EXCEPT ![h] =
                            IF res.err # "nil"
                            THEN [@ EXCEPT !.pc = "done", !.cmd = cmd]
                            ELSE [@ EXCEPT !.pc = "saveFilter", !.cmd = cmd,
                                           !.channel = res.channel]]
    /\ UNCHANGED <<storeVars, ingestVars, cmds, allowedUsers, userFiles, monitorVars, probe>>

\* handleAddFilter: append the filter, h.channelService.SaveChannel(channel),
\* answer "Filter added" or "Failed to save filter".
HandleAddFilterSave(h) ==
    /\ hnd[h].pc = "saveFilter"
    /\ LET filter == Filter(FilterTypeKeywords, hnd[h].cmd.Keywords, TRUE)
           channel == [hnd[h].channel EXCEPT !.Filters = Append(@, filter)]
       IN  \E res \in SaveChannel(channelFiles, channel) :
              /\ channelFiles' = res.files
              /\ hnd' = [hnd EXCEPT ![h] =
                           [@ EXCEPT !.pc = "done", !.channel = channel,
                                     !.reply = IF res.err = "nil" THEN "added"
                                               ELSE "failed"]]
    /\ UNCHANGED <<messageFiles, now, ingestVars, cmds, allowedUsers, userFiles, monitorVars, probe>>

HandleCommand(h) ==
    \/ HandleAddChannel(h)
    \/ HandleAddChannelMonitor(h)
    \/ HandleAddFilter(h)
    \/ HandleAddFilterSave(h)

(***************************************************************************)
(* Channel monitor: Start, Stop, monitorLoop, checkChannels,               *)
(* fetchChannelMessages                                                    *)
(***************************************************************************)

RECURSIVE LexLess(_, _)
\* Byte order of two names, as os.ReadDir sorts a directory.
LexLess(a, b) ==
    IF a = <<>> THEN b # <<>>
    ELSE IF b = <<>> THEN FALSE
    ELSE IF Head(a) # Head(b) THEN Head(a) < Head(b)
    ELSE LexLess(Tail(a), Tail(b))

RECURSIVE SortNames(_)
\* os.ReadDir: the names of a directory, sorted.
SortNames(names) ==
    IF names = {} THEN <<>>
    ELSE LET first == CHOOSE n \in names : \A m \in names \ {n} : LexLess(n, m)
         IN  <<first>> \o SortNames(names \ {first})

\* channel FileStorage.GetAllChannels: the results a call can have.  A file
\* that cannot be read or parsed is skipped; skipped names the files that
\* hold a channel and could not be read.
GetAllChannels(files) ==
    {[err |-> "readdir", list |-> <<>>, skipped |-> {}]} \cup
    {[err |-> "nil",
      list |-> LET names == SortNames({p \in DOMAIN files \ unreadable : Parses(files[p])})
               IN  [i \in 1..Len(names) |-> Unmarshal(files[names[i]])],
      skipped |-> {p \in unreadable : Parses(files[p])}]
        : unreadable \in SUBSET DOMAIN files}

\* A mutant of joinsActiveSet: every channel loaded joins the active set.
joinsActiveSetAlways(ch) == TRUE

\* Service.Start: if ch.IsActive { s.AddChannel(ch.ID) }
joinsActiveSet(ch) == ch.IsActive

\* Service.Start: s.channelRepo.GetAllChannels().
StartLoad ==
    /\ start.pc = "idle"
    /\ \E res \in GetAllChannels(channelFiles) :
          start' = [pc |-> "add", list |-> res.list, err |-> res.err,
                    skipped |-> res.skipped]
    /\ UNCHANGED <<storeVars, ingestVars, commandVars, channels, bot, cancelled, wg,
                   syncStart, stop, loop, tick, units, sweeps, probe>>

\* Service.Start: one iteration of the loop over the loaded channels.
StartAdd ==
    /\ start.pc = "add"
    /\ start.list # <<>>
    /\ channels' = IF joinsActiveSet(Head(start.list))
                   THEN AddChannel(channels, Head(start.list).ID)
                   ELSE channels
    /\ start' = [start EXCEPT !.list = Tail(@)]
    /\ UNCHANGED <<storeVars, ingestVars, commandVars, bot, cancelled, wg,
                   syncStart, stop, loop, tick, units, sweeps, probe>>

\* Service.Start: s.wg.Add(1); go s.monitorLoop().
StartLoop ==
    /\ start.pc = "add"
    /\ start.list = <<>>
    /\ wg' = wg + 1
    /\ loop' = [pc |-> "check", ids |-> {}]
    /\ start' = [start EXCEPT !.pc = "returned"]
    /\ UNCHANGED <<storeVars, ingestVars, commandVars, channels, bot, cancelled,
                   syncStart, stop, tick, units, sweeps, probe>>

\* Service.Stop: s.cancel().  Called once; main calls it from the deferred
\* Shutdown while Start runs in its own goroutine.
StopCancel ==
    /\ stop.pc = "idle"
    /\ syncStart => start.pc = "returned"
    /\ cancelled' = TRUE
    /\ stop' = [stop EXCEPT !.pc = "wait",
                            !.busy = units # {} \/ loop.pc \in {"check", "spawn"}]
    /\ UNCHANGED <<storeVars, ingestVars, commandVars, channels, bot, wg,
                   syncStart, start, loop, tick, units, sweeps, probe>>

\* sync.WaitGroup.Wait returns when the counter is zero.
waitDone(counter) == counter = 0

\* Service.Stop: s.wg.Wait().
StopWait ==
    /\ stop.pc = "wait"
    /\ waitDone(wg)
    /\ stop' = [stop EXCEPT !.pc = "returned", !.ticks = tick.fired]
    /\ UNCHANGED <<storeVars, ingestVars, commandVars, channels, bot, cancelled, wg,
                   syncStart, start, loop, tick, units, sweeps, probe>>

\* The ticker of monitorLoop delivers a tick (the channel holds one tick).
Tick ==
    /\ loop.pc \in {"check", "spawn", "select"}
    /\ ~tick.pending
    /\ tick.fired < MaxTicks
    /\ tick' = [fired |-> tick.fired + 1, pending |-> TRUE]
    /\ UNCHANGED <<storeVars, ingestVars, commandVars, channels, bot, cancelled, wg,
                   syncStart, start, stop, loop, units, sweeps, probe>>

\* A sweep's record: the ids enumerated, and what the unit of each did.
NewSweep(ids) == [ids |-> ids, outcome |-> [id \in ids |-> "none"]]

\* checkChannels: the ids enumerated under the read lock.
CheckChannels ==
    /\ loop.pc = "check"
    /\ loop' = [pc |-> IF channels = {} THEN "select" ELSE "spawn", ids |-> channels]
    /\ sweeps' = Append(sweeps, NewSweep(channels))
    /\ UNCHANGED <<storeVars, ingestVars, commandVars, channels, bot, cancelled, wg,
                   syncStart, start, stop, tick, units, probe>>

\* A sweep goroutine that has not yet run.
Unit(sweep, id) == [sweep |-> sweep, id |-> id, pc |-> "fetch", channel |-> ZeroChannel]

\* checkChannels: s.wg.Add(1); go func(id) for one of the enumerated ids (a
\* map is ranged over in no fixed order).
SpawnUnit ==
    /\ loop.pc = "spawn"
    /\ \E id \in loop.ids :
          /\ wg' = wg + 1
          /\ units' = units \cup {Unit(Len(sweeps), id)}
          /\ loop' = [pc |-> IF loop.ids = {id} THEN "select" ELSE "spawn",
                      ids |-> loop.ids \ {id}]
    /\ UNCHANGED <<storeVars, ingestVars, commandVars, channels, bot, cancelled,
                   syncStart, start, stop, tick, sweeps, probe>>

\* monitorLoop: case <-s.ctx.Done(): return (with the deferred ticker.Stop
\* and wg.Done).
LoopDone ==
    /\ loop.pc = "select"
    /\ cancelled
    /\ loop' = [loop EXCEPT !.pc = "exited"]
    /\ wg' = wg - 1
    /\ UNCHANGED <<storeVars, ingestVars, commandVars, channels, bot, cancelled,
                   syncStart, start, stop, tick, units, sweeps, probe>>

\* A mutant of tickReady: the loop sweeps again without waiting for a tick.
tickReadyAlways(t) == TRUE

\* monitorLoop: <-ticker.C can be received.
tickReady(t) == t.pending

\* monitorLoop: case <-ticker.C: s.checkChannels().
LoopTick ==
    /\ loop.pc = "select"
    /\ tickReady(tick)
    /\ tick' = [tick EXCEPT !.pending = FALSE]
    /\ loop' = [loop EXCEPT !.pc = "check"]
    /\ UNCHANGED <<storeVars, ingestVars, commandVars, channels, bot, cancelled, wg,
                   syncStart, start, stop, units, sweeps, probe>>

\* A mutant of EndUnit: the goroutine ends without wg.Done.
EndUnitNoDone(u, outcome) ==
    /\ units' = units \ {u}
    /\ wg' = wg
    /\ sweeps' = [sweeps EXCEPT ![u.sweep].outcome[u.id] = outcome]

\* A mutant of EndUnit: an error of one unit ends the other units of the run.
EndUnitAbortOnError(u, outcome) ==
    LET abort == outcome \in {"geterror", "saveerror"}
    IN  /\ units' = IF abort THEN {} ELSE units \ {u}
        /\ wg' = IF abort THEN wg - Cardinality(units) ELSE wg - 1
        /\ sweeps' = [sweeps EXCEPT ![u.sweep].outcome[u.id] = outcome]

\* The sweep goroutine u ends: its outcome is recorded, deferred wg.Done runs.
EndUnit(u, outcome) ==
    /\ units' = units \ {u}
    /\ wg' = wg - 1
    /\ sweeps' = [sweeps EXCEPT ![u.sweep].outcome[u.id] = outcome]

\* fetchChannelMessages up to the IsActive check.
UnitFetch(u) ==
    /\ u \in units
    /\ u.pc = "fetch"
    /\ IF ~bot
       THEN EndUnit(u, "nobot")
       ELSE \E res \in GetChannel(channelFiles, u.id) :
               IF res.err # "nil" THEN EndUnit(u, "geterror")
               ELSE IF ~res.channel.IsActive THEN EndUnit(u, "inactive")
               ELSE /\ units' = (units \ {u}) \cup
                                   {[u EXCEPT !.pc = "save", !.channel = res.channel]}
                    /\ UNCHANGED <<wg, sweeps>>
    /\ UNCHANGED <<storeVars, ingestVars, commandVars, channels, bot, cancelled,
                   syncStart, start, stop, loop, tick, probe>>

\* A mutant of touchLastUpdate: AddedAt is overwritten as well.
touchLastUpdateAndAddedAt(channel, t) == [channel EXCEPT !.LastUpdate = t, !.AddedAt = t]

\* fetchChannelMessages: channel.LastUpdate = time.Now()
touchLastUpdate(channel, t) == [channel EXCEPT !.LastUpdate = t]

\* fetchChannelMessages: channel.LastUpdate = time.Now(); SaveChannel(channel).
UnitSave(u) ==
    /\ u \in units
    /\ u.pc = "save"
    /\ now < MaxTime
    /\ now' = now + 1
    /\ \E res \in SaveChannel(channelFiles, touchLastUpdate(u.channel, now)) :
          /\ channelFiles' = res.files
          /\ EndUnit(u, IF res.err = "nil" THEN "touched" ELSE "saveerror")
    /\ UNCHANGED <<messageFiles, ingestVars, commandVars, channels, bot, cancelled,
                   syncStart, start, stop, loop, tick, probe>>

Monitor ==
    \/ StartLoad
    \/ StartAdd
    \/ StartLoop
    \/ StopCancel
    \/ StopWait
    \/ Tick
    \/ CheckChannels
    \/ SpawnUnit
    \/ LoopDone
    \/ LoopTick
    \/ \E u \in units : UnitFetch(u)
    \/ \E u \in units : UnitSave(u)

(***************************************************************************)
(* Initial states                                                          *)
(***************************************************************************)

\* A directory with no file.
EmptyDir == [p \in {} |-> Truncated]

TitleOf(chatID) == <<84, chatID>>
UsernameOf(chatID) == <<117, chatID>>

\* A channel as handleAddChannel stored it at time 0, then possibly edited.
StoredChannel(chatID, filters, isActive) ==
    Channel(FmtInt(chatID), UsernameOf(chatID), TitleOf(chatID), 1, 0, filters, 0, isActive)

\* A channels directory holding the given channels.
ChannelDir(chs) ==
    [p \in {ChannelPath(c.ID) : c \in chs} |->
        Marshal(CHOOSE c \in chs : ChannelPath(c.ID) = p)]

IdleStore == /\ messageFiles = EmptyDir
             /\ now = 1

IdleIngests == /\ posts = {}
               /\ ing = [w \in Workers |-> IdleIngest]

IdleCommands == /\ cmds = {}
                /\ hnd = [h \in Handlers |-> IdleHandler]
                /\ allowedUsers = {}
                /\ userFiles = EmptyDir

\* The monitor as channelService.New leaves it.
NewMonitor == /\ channels = {}
              /\ cancelled = FALSE
              /\ wg = 0
              /\ start = [pc |-> "idle", list |-> <<>>, err |-> "nil", skipped |-> {}]
              /\ stop = [pc |-> "idle", busy |-> FALSE, ticks |-> 0]
              /\ loop = [pc |-> "none", ids |-> {}]
              /\ tick = [fired |-> 0, pending |-> FALSE]
              /\ units = {}
              /\ sweeps = <<>>

IdleMonitor == /\ NewMonitor
               /\ bot = TRUE
               /\ syncStart = TRUE

IdleProbe == probe = [pc |-> "none", filters |-> <<>>, text |-> <<>>, result |-> FALSE]

(***************************************************************************)
(* Specification of the filter engine                                      *)
(***************************************************************************)

\* The longest filter list probed.
MaxFilters == 2

\* The texts probed: every string of at most two of the code points.
Texts == {<<>>} \cup {<<r>> : r \in Runes} \cup {<<r, q>> : r \in Runes, q \in Runes}

\* The keyword lists probed: none, a lower-case ASCII keyword, an upper-case
\* non-ASCII keyword, an empty keyword followed by an upper-case ASCII one.
KeywordLists == {<<>>, <<<<97>>>>, <<<<196>>>>, << <<>>, <<65>> >>}

Filters == {Filter(t, ks, e) : t \in FilterTypes, ks \in KeywordLists, e \in BOOLEAN}

FilterLists == UNION {[1..n -> Filters] : n \in 0..MaxFilters}

InitFilter ==
    /\ probe \in {[pc |-> "call", filters |-> F, text |-> T, result |-> FALSE] :
                    F \in FilterLists, T \in Texts}
    /\ channelFiles = EmptyDir
    /\ IdleStore /\ IdleIngests /\ IdleCommands /\ IdleMonitor

\* A call of s.passesFilters(channel, text).
CallPassesFilters ==
    /\ probe.pc = "call"
    /\ probe' = [probe EXCEPT !.pc = "done", !.result = passesFilters(probe.filters, probe.text)]
    /\ UNCHANGED <<storeVars, ingestVars, commandVars, monitorVars>>

NextFilter == CallPassesFilters

SpecFilter == InitFilter /\ [][NextFilter]_vars

(***************************************************************************)
(* Specification of the ingestion pipeline                                 *)
(***************************************************************************)

\* The posts delivered: the same message of chat 42 with three contents (a
\* text the filters admit, one they reject, a caption only), another message
\* of chat 42 and a message of chat 43.
IngestPosts ==
    {Post(42, 7, <<97>>, <<>>, 100), Post(42, 7, <<228>>, <<>>, 101),
     Post(42, 7, <<>>, <<97>>, 102), Post(42, 8, <<97>>, <<>>, 103),
     Post(43, 7, <<97>>, <<>>, 104)}

\* The filter lists of the stored channels: none, or one include filter.
IncludeA == <<Filter(FilterTypeKeywords, <<<<97>>>>, TRUE)>>

\* The channels directories the pipeline starts from: chat 42 unregistered,
\* active without or with a filter, or inactive; chat 43 unregistered or active.
IngestChannelDirs ==
    {ChannelDir(a \cup b) :
        a \in {{}, {StoredChannel(42, <<>>, TRUE)}, {StoredChannel(42, IncludeA, TRUE)},
               {StoredChannel(42, <<>>, FALSE)}},
        b \in {{}, {StoredChannel(43, <<>>, TRUE)}}}

InitIngest ==
    /\ channelFiles \in IngestChannelDirs
    /\ messageFiles = EmptyDir
    /\ now = 1
    /\ posts = IngestPosts
    /\ ing = [w \in Workers |-> IdleIngest]
    /\ IdleCommands /\ IdleMonitor /\ IdleProbe

NextIngest == \E w \in Workers : Ingest(w)

SpecIngest == InitIngest /\ [][NextIngest]_vars

(***************************************************************************)
(* Specification of the pipeline running with the command handlers         *)
(***************************************************************************)

\* The commands sent: user 1 registers chat 42 and adds a filter to it, user
\* 2 (not on the allow-list) tries to add a filter.
CommandsSent ==
    {Command("addchannel", 1, <<64>> \o UsernameOf(42), 42, TitleOf(42), <<>>),
     Command("addfilter", 1, FmtInt(42), 0, <<>>, <<<<97>>>>),
     Command("addfilter", 2, FmtInt(42), 0, <<>>, <<<<228>>>>)}

InitIngestCmd ==
    /\ channelFiles \in {ChannelDir({StoredChannel(42, <<>>, a)}) : a \in BOOLEAN}
    /\ messageFiles = EmptyDir
    /\ now = 1
    /\ posts = {Post(42, 7, <<97>>, <<>>, 100), Post(42, 7, <<228>>, <<>>, 101)}
    /\ ing = [w \in Workers |-> IdleIngest]
    /\ cmds = CommandsSent
    /\ hnd = [h \in Handlers |-> IdleHandler]
    /\ allowedUsers = {1}
    /\ userFiles = EmptyDir
    /\ IdleMonitor /\ IdleProbe

NextIngestCmd ==
    \/ \E w \in Workers : Ingest(w)
    \/ \E h \in Handlers : HandleCommand(h)

SpecIngestCmd == InitIngestCmd /\ [][NextIngestCmd]_vars

(***************************************************************************)
(* Specification of the channel monitor                                    *)
(***************************************************************************)

\* The channels directories the monitor starts from: chat 42 active or
\* inactive, chat 43 unregistered or active.
MonitorChannelDirs ==
    {ChannelDir({StoredChannel(42, <<>>, a)} \cup b) :
        a \in BOOLEAN, b \in {{}, {StoredChannel(43, <<>>, TRUE)}}}

InitMonitor ==
    /\ channelFiles \in MonitorChannelDirs
    /\ IdleStore /\ IdleIngests /\ IdleCommands /\ IdleProbe
    /\ NewMonitor
    /\ bot \in BOOLEAN
    /\ syncStart \in BOOLEAN

NextMonitor == Monitor

SpecMonitor == InitMonitor /\ [][NextMonitor]_vars

\* A step of a goroutine of the monitor: of Start, of Stop waiting, of
\* monitorLoop or of a sweep unit.
GoroutineStep ==
    \/ StartLoad \/ StartAdd \/ StartLoop
    \/ StopWait
    \/ CheckChannels \/ SpawnUnit \/ LoopDone \/ LoopTick
    \/ \E u \in units : UnitFetch(u)
    \/ \E u \in units : UnitSave(u)

\* The goroutines of the monitor are scheduled: while one of them can take a
\* step, one does.  Neither a call of Stop nor a tick is required to happen.
MonitorFairness == WF_vars(GoroutineStep)

SpecMonitorFair == SpecMonitor /\ MonitorFairness

(***************************************************************************)
(* C4: what passesFilters decides                                          *)
(***************************************************************************)

\* keyword is a substring of text when letters are compared without regard
\* to case (the case mapping of strings.ToLower).
CaseInsensitiveSubstring(keyword, text) ==
    \E i \in 0..(Len(text) - Len(keyword)) :
        StringsToLower(SubSeq(text, i + 1, i + Len(keyword))) = StringsToLower(keyword)

\* keyword is a substring of text when only the letters A..Z are folded.
AsciiFoldRune(r) == IF r >= 65 /\ r <= 90 THEN r + 32 ELSE r
AsciiFold(s) == [i \in 1..Len(s) |-> AsciiFoldRune(s[i])]
AsciiInsensitiveSubstring(keyword, text) ==
    \E i \in 0..(Len(text) - Len(keyword)) :
        AsciiFold(SubSeq(text, i + 1, i + Len(keyword))) = AsciiFold(keyword)

\* keyword occurs in text under a case mapping: that of strings.ToLower
\* ("unicode") or the folding of A..Z alone ("ascii").
Occurs(mapping, keyword, text) ==
    IF mapping = "unicode" THEN CaseInsensitiveSubstring(keyword, text)
    ELSE AsciiInsensitiveSubstring(keyword, text)

\* AND across the enabled filters, OR within the keywords of a filter, for a
\* given case mapping.
Admits(F, T, mapping) ==
    /\ \A i \in 1..Len(F) :
          F[i].Enabled /\ F[i].Type = FilterTypeKeywords =>
             \E j \in 1..Len(F[i].Keywords) :
                 F[i].Keywords[j] # <<>> /\ Occurs(mapping, F[i].Keywords[j], T)
    /\ \A i \in 1..Len(F) :
          F[i].Enabled /\ F[i].Type = FilterTypeExcludeKeywords =>
             ~\E j \in 1..Len(F[i].Keywords) :
                 F[i].Keywords[j] # <<>> /\ Occurs(mapping, F[i].Keywords[j], T)

\* C4: passesFilters(F, T) is true exactly when every enabled include filter
\* has a non-empty keyword that is a case-insensitive substring of T and no
\* enabled exclude filter has one.
C4_PassesFiltersCaseInsensitive ==
    probe.pc = "done" =>
        (probe.result <=> Admits(probe.filters, probe.text, "unicode"))

\* C4, with the letters A..Z alone folded: the AND/OR structure of the claim
\* is what the code computes; only the case mapping differs.
C4_PassesFiltersAsciiFold ==
    probe.pc = "done" =>
        (probe.result <=> Admits(probe.filters, probe.text, "ascii"))

\* C4: a call with an enabled include filter and a text has returned.
C4_Witness ==
    /\ probe.pc = "done"
    /\ probe.result
    /\ \E i \in 1..Len(probe.filters) :
          probe.filters[i].Enabled /\ probe.filters[i].Type = FilterTypeKeywords

(***************************************************************************)
(* C1, C2, C3, C5, C6: the ingestion pipeline                              *)
(***************************************************************************)

\* A channel id has a stored, parseable record with IsActive = false.
StoredInactive(files, channelID) ==
    /\ ChannelPath(channelID) \in DOMAIN files
    /\ Parses(files[ChannelPath(channelID)])
    /\ ~Unmarshal(files[ChannelPath(channelID)]).IsActive

\* A channel id has no file in the channels directory.
NotStored(files, channelID) == ChannelPath(channelID) \notin DOMAIN files

\* The step in which goroutine w has SaveMessage write its message.
WritesMessage(w) ==
    /\ ing[w].pc = "saveMessage"
    /\ ing'[w].pc = "saveChannel"

\* The message files whose record has the key <channel id, message id>.
FilesUnder(files, channelID, id) ==
    {p \in DOMAIN files :
        /\ Parses(files[p])
        /\ Unmarshal(files[p]).ChannelID = channelID
        /\ Unmarshal(files[p]).ID = id}

\* C1: no Message is written for a channel whose stored record has
\* IsActive = false at the moment of the write.
C1_NoWriteWhileStoredInactive ==
    [][\A w \in Workers :
          WritesMessage(w) => ~StoredInactive(channelFiles, ing[w].message.ChannelID)]_vars

\* C1, amended: every Message written is for a channel whose record had
\* IsActive = true when the ingest looked it up; the record the ingest holds
\* is the one it checked.
C1_WriteOnlyAfterActiveLookup ==
    [][\A w \in Workers :
          WritesMessage(w) =>
             /\ ing[w].channel.IsActive
             /\ ing[w].channel.ID = FmtInt(ing[w].post.ChatID)
             /\ ing[w].message.ChannelID = ing[w].channel.ID]_vars

\* C1: a Message of a channel is in the store, written by an ingest that has
\* finished, while the stored record of the channel is inactive.
C1_Witness ==
    \E w \in Workers :
        /\ ing[w].pc = "done"
        /\ ing[w].ret = "nil"
        /\ ing[w].message # ZeroMessage
        /\ FilesUnder(messageFiles, ing[w].message.ChannelID, ing[w].message.ID) # {}
        /\ StoredInactive(channelFiles, ing[w].message.ChannelID)

\* At most one stored Message per <channel id, message id>.
OneMessagePerKey ==
    \A p \in DOMAIN messageFiles, q \in DOMAIN messageFiles :
        /\ Parses(messageFiles[p]) /\ Parses(messageFiles[q])
        /\ Unmarshal(messageFiles[p]).ChannelID = Unmarshal(messageFiles[q]).ChannelID
        /\ Unmarshal(messageFiles[p]).ID = Unmarshal(messageFiles[q]).ID
        => p = q

\* An accepted ingest leaves exactly one Message under its key, with its text,
\* whatever was stored under the key before.
LastWriteWins ==
    \A w \in Workers :
        WritesMessage(w) =>
           LET under == FilesUnder(messageFiles', FmtInt(ing[w].post.ChatID), ing[w].post.ID)
           IN  /\ Cardinality(under) = 1
               /\ \A p \in under : Unmarshal(messageFiles'[p]).Text = EffectiveText(ing[w].post)

\* C2: the store holds at most one Message per (channelId, sequenceId), and
\* an ingest of a key already stored with another text leaves exactly one
\* Message under the key, with the text of the later call.
C2_IdempotentWrite == []OneMessagePerKey /\ [][LastWriteWins]_vars

\* C2: two ingests of the same key with different texts were both accepted,
\* and the key holds one Message.
C2_Witness ==
    \E w \in Workers, v \in Workers :
        /\ w # v
        /\ ing[w].pc = "done" /\ ing[v].pc = "done"
        /\ ing[w].ret = "nil" /\ ing[v].ret = "nil"
        /\ ing[w].message # ZeroMessage /\ ing[v].message # ZeroMessage
        /\ ing[w].err = "nil" /\ ing[v].err = "nil"
        /\ ing[w].message.ChannelID = ing[v].message.ChannelID
        /\ ing[w].message.ID = ing[v].message.ID
        /\ ing[w].message.Text # ing[v].message.Text
        /\ Cardinality(FilesUnder(messageFiles, ing[w].message.ChannelID, ing[w].message.ID)) = 1

\* The step in which goroutine w takes a post and looks its channel up.
TakesPost(w) == ing[w].pc = "idle" /\ ing'[w].pc # "idle"

\* C3: an ingest for a channel id with no stored Channel, or whose stored
\* Channel is inactive, returns without reporting an error, having built no
\* Message, and leaves the message store and every Channel record unchanged.
C3_UnknownOrInactiveIgnored ==
    [][\A w \in Workers :
          /\ TakesPost(w)
          /\ \/ NotStored(channelFiles, FmtInt(ing'[w].post.ChatID))
             \/ StoredInactive(channelFiles, FmtInt(ing'[w].post.ChatID))
          => /\ ing'[w].pc = "done"
             /\ ing'[w].ret = "none"
             /\ ~ing'[w].logged
             /\ ing'[w].message = ZeroMessage
             /\ messageFiles' = messageFiles
             /\ channelFiles' = channelFiles]_vars

\* C3: an ingest for an inactive channel and one for an unregistered channel
\* have returned.
C3_Witness ==
    \E w \in Workers, v \in Workers :
        /\ ing[w].pc = "done" /\ ing[v].pc = "done"
        /\ StoredInactive(channelFiles, FmtInt(ing[w].post.ChatID))
        /\ NotStored(channelFiles, FmtInt(ing[v].post.ChatID))
        /\ messageFiles = EmptyDir

\* The step in which ProcessMessage checks the filters for goroutine w.
ChecksFilters(w) == ing[w].pc = "process" /\ ing'[w].pc # "process"

\* C5: when the filters reject the effective text, ProcessMessage returns nil
\* and writes nothing: no Message, and the Channel record is unchanged.
C5_RejectedHasNoEffect ==
    [][\A w \in Workers :
          /\ ChecksFilters(w)
          /\ ~Admits(ing[w].channel.Filters, EffectiveText(ing[w].post), "ascii")
          => /\ ing'[w].pc = "done"
             /\ ing'[w].ret = "nil"
             /\ ~ing'[w].logged
             /\ ing'[w].message = ZeroMessage
             /\ messageFiles' = messageFiles
             /\ channelFiles' = channelFiles]_vars

\* C5: ProcessMessage has returned for a post the channel's filter rejects.
C5_Witness ==
    \E w \in Workers :
        /\ ing[w].pc = "done"
        /\ ing[w].ret = "nil"
        /\ ing[w].channel.Filters # <<>>
        /\ ing[w].message = ZeroMessage
        /\ ~Admits(ing[w].channel.Filters, ing[w].text, "ascii")

\* C6: if persisting the Message fails, ProcessMessage returns an error and
\* does not write the Channel; if the Message is persisted and the Channel
\* save fails, it returns nil and the Message is not rolled back.
C6_MessageFirstChannelBestEffort ==
    [][\A w \in Workers :
          /\ (ing[w].pc = "saveMessage" /\ ing'[w].pc # "saveMessage" /\ ing'[w].err # "nil"
              => /\ ing'[w].pc = "done"
                 /\ ing'[w].ret = "error"
                 /\ channelFiles' = channelFiles)
          /\ (ing[w].pc = "saveChannel" /\ ing'[w].pc # "saveChannel" /\ ing'[w].err # "nil"
              => /\ ing'[w].pc = "done"
                 /\ ing'[w].ret = "nil"
                 /\ ~ing'[w].logged
                 /\ messageFiles' = messageFiles)]_vars

\* C6: one ingest has failed to persist its Message, another has persisted
\* its Message and failed to save the Channel, and that Message is stored.
C6_Witness ==
    \E w \in Workers, v \in Workers :
        /\ ing[w].pc = "done" /\ ing[w].ret = "error" /\ ing[w].err # "nil"
        /\ ing[v].pc = "done" /\ ing[v].ret = "nil" /\ ing[v].err # "nil"
        /\ FilesUnder(messageFiles, ing[v].message.ChannelID, ing[v].message.ID) # {}

(***************************************************************************)
(* C7, C8, C9, C10: the channel monitor                                    *)
(***************************************************************************)

\* C7: once Stop has returned, no sweep unit is running (and so none has
\* started since), whether Start ran before Stop or in its own goroutine.
C7_NoUnitAfterStop == stop.pc = "returned" => units = {}

\* C7, when Stop is called after Start has returned: Stop returns only after
\* monitorLoop has exited and every sweep unit has ended.
C7_DrainedWhenStartReturned ==
    syncStart /\ stop.pc = "returned" => units = {} /\ loop.pc = "exited" /\ wg = 0

\* The sweeps in which the unit of a channel id called SaveChannel.
MonitorWrites(channelID) ==
    {i \in 1..Len(sweeps) :
        /\ channelID \in sweeps[i].ids
        /\ sweeps[i].outcome[channelID] \in {"touched", "saveerror"}}

\* The channel ids of the model.
ChannelIds == {FmtInt(c) : c \in ChatIds}

\* Stop was called after Start returned and has returned, and no tick fired.
StoppedBeforeAnyTick == syncStart /\ stop.pc = "returned" /\ stop.ticks = 0

\* C8: when Stop is called right after Start and before any tick, then by
\* the time Stop returns the monitor has written no Channel's lastUpdate.
C8_NoWriteBeforeFirstTick ==
    StoppedBeforeAnyTick => \A id \in ChannelIds : MonitorWrites(id) = {}

\* C8, amended: by the time Stop returns the monitor has written each
\* Channel's lastUpdate at most once, in the initial check of monitorLoop,
\* and no unit is left to write it again.
C8_OneWriteBeforeFirstTick ==
    StoppedBeforeAnyTick =>
        /\ \A id \in ChannelIds : Cardinality(MonitorWrites(id)) <= 1
        /\ \A id \in ChannelIds : MonitorWrites(id) \subseteq {1}
        /\ units = {}

\* C8: Stop has returned before any tick and the initial check has written
\* the lastUpdate of a Channel.
C8_Witness ==
    /\ StoppedBeforeAnyTick
    /\ \E id \in ChannelIds :
          /\ MonitorWrites(id) = {1}
          /\ Parses(channelFiles[ChannelPath(id)])
          /\ Unmarshal(channelFiles[ChannelPath(id)]).LastUpdate > 0

\* C9: Stop, once called, returns.
C9_StopReturns == (stop.pc = "wait") ~> (stop.pc = "returned")

\* C9: Stop was called while a sweep was in progress and has returned.
C9_Witness == stop.pc = "returned" /\ stop.busy /\ Len(sweeps) > 0

\* Sweep i has run to its end: every unit is spawned and none is running.
Drained(i) ==
    /\ ~(loop.pc = "spawn" /\ Len(sweeps) = i)
    /\ \A u \in units : u.sweep # i

\* The unit of a channel id failed on its own store operations (or for want
\* of the bot).
OwnFailure(outcome) == outcome \in {"nobot", "geterror", "saveerror"}

\* C10: in every sweep each enumerated id gets its own unit, whatever became
\* of the others: when the sweep has run to its end, the unit of every id
\* that did not fail itself has touched the lastUpdate of its Channel, or
\* found the Channel inactive.
C10_UnitsIndependent ==
    \A i \in 1..Len(sweeps) :
        Drained(i) =>
            \A id \in sweeps[i].ids :
                \/ OwnFailure(sweeps[i].outcome[id])
                \/ /\ sweeps[i].outcome[id] = "inactive"
                   /\ StoredInactive(channelFiles, id)
                \/ /\ sweeps[i].outcome[id] = "touched"
                   /\ ~StoredInactive(channelFiles, id)
                   /\ Parses(channelFiles[ChannelPath(id)]) =>
                         Unmarshal(channelFiles[ChannelPath(id)]).LastUpdate > 0

\* C10: a sweep has run to its end in which the unit of one id failed and the
\* unit of another id touched its Channel.
C10_Witness ==
    \E i \in 1..Len(sweeps) :
        /\ Drained(i)
        /\ \E id \in sweeps[i].ids, other \in sweeps[i].ids :
              /\ sweeps[i].outcome[id] \in {"geterror", "saveerror"}
              /\ sweeps[i].outcome[other] = "touched"

(***************************************************************************)
(* Message listing and feed generation: GetMessages, GenerateFeed          *)
(***************************************************************************)

\* The files of one call that os.ReadFile fails to read.
MaxUnreadable == 1

\* The largest limit GetMessages is probed with.
MaxLimit == 2

\* GenerateFeed: s.messageRepo.GetMessages(channelID, 50).
FeedWindow == 50

RECURSIVE UpTo(_, _)
\* The subsets of S with at most k elements.
UpTo(S, k) ==
    IF k = 0 THEN {{}}
    ELSE UpTo(S, k - 1) \cup {U \cup {x} : U \in UpTo(S, k - 1), x \in S}

\* os.ReadDir(msgDir): the names in the directory of a channel, sorted.
ReadDir(files, channelID) ==
    SortNames({p[2] : p \in {q \in DOMAIN files : q[1] = channelID}})

RECURSIVE getLoopCountingSkipped(_, _, _, _, _, _, _)
\* A mutant of getLoop: a skipped entry counts toward the limit.
getLoopCountingSkipped(files, channelID, entries, unreadable, i, count, limit) ==
    IF i < 1 \/ count >= limit THEN <<>>
    ELSE IF \/ entries[i] \in unreadable
            \/ ~Parses(files[<<channelID, entries[i]>>])
         THEN getLoopCountingSkipped(files, channelID, entries, unreadable, i - 1,
                                     count + 1, limit)
         ELSE <<Unmarshal(files[<<channelID, entries[i]>>])>> \o
              getLoopCountingSkipped(files, channelID, entries, unreadable, i - 1,
                                     count + 1, limit)

RECURSIVE getLoop(_, _, _, _, _, _, _)
\* message FileStorage.GetMessages: the loop over the entries from the last
\* one (entries[i], i counted from 1) down, until count reaches limit.  An
\* entry that cannot be read or parsed is skipped and is not counted.
getLoop(files, channelID, entries, unreadable, i, count, limit) ==
    IF i < 1 \/ count >= limit THEN <<>>
    ELSE IF \/ entries[i] \in unreadable
            \/ ~Parses(files[<<channelID, entries[i]>>])
         THEN getLoop(files, channelID, entries, unreadable, i - 1, count, limit)
         ELSE <<Unmarshal(files[<<channelID, entries[i]>>])>> \o
              getLoop(files, channelID, entries, unreadable, i - 1, count + 1, limit)

\* message FileStorage.GetMessages: the results a call can have.  A missing
\* directory gives the empty list and no error.
GetMessages(files, channelID, limit) ==
    LET entries == ReadDir(files, channelID)
    IN  {[err |-> "readdir", list |-> <<>>, unreadable |-> {}]} \cup
        {[err |-> "nil",
          list |-> getLoop(files, channelID, entries, U, Len(entries), 0, limit),
          unreadable |-> U]
            : U \in UpTo({entries[i] : i \in 1..Len(entries)}, MaxUnreadable)}

\* "No text content"
NoTextContent == <<78, 111, 32, 116, 101, 120, 116, 32, 99, 111, 110, 116, 101, 110, 116>>

\* " - RSS Feed"
RSSFeedSuffix == <<32, 45, 32, 82, 83, 83, 32, 70, 101, 101, 100>>

\* "/rss/"
RSSPath == <<47, 114, 115, 115, 47>>

\* "..."
Ellipsis == <<46, 46, 46>>

\* A mutant of truncate: a string of exactly maxLen bytes is cut too.
truncateStrict(s, maxLen) ==
    IF Len(s) < maxLen THEN s ELSE SubSeq(s, 1, maxLen) \o Ellipsis

\* feed service truncate, on the bytes of the string.
truncate(s, maxLen) ==
    IF Len(s) <= maxLen THEN s ELSE SubSeq(s, 1, maxLen) \o Ellipsis

\* A mutant of escapeRune: the apostrophe is left as it is.
escapeRuneNoApostrophe(r) ==
    IF r = 60 THEN <<38, 108, 116, 59>>
    ELSE IF r = 62 THEN <<38, 103, 116, 59>>
    ELSE IF r = 38 THEN <<38, 97, 109, 112, 59>>
    ELSE IF r = 34 THEN <<38, 113, 117, 111, 116, 59>>
    ELSE <<r>>

\* feed service escapeHTML, one code point.
escapeRune(r) ==
    IF r = 60 THEN <<38, 108, 116, 59>>
    ELSE IF r = 62 THEN <<38, 103, 116, 59>>
    ELSE IF r = 38 THEN <<38, 97, 109, 112, 59>>
    ELSE IF r = 34 THEN <<38, 113, 117, 111, 116, 59>>
    ELSE IF r = 39 THEN <<38, 35, 51, 57, 59>>
    ELSE <<r>>

RECURSIVE escapeHTML(_)
\* feed service escapeHTML, on the code points of the string.
escapeHTML(s) ==
    IF s = <<>> THEN <<>>
    ELSE IF Len(s) = 1 THEN escapeRune(s[1])
    ELSE LET h == Len(s) \div 2
         IN  escapeHTML(SubSeq(s, 1, h)) \o escapeHTML(SubSeq(s, h + 1, Len(s)))

\* messageDomain.Media, as far as the feed reads it.
Media(type, fileID, caption) == [Type |-> type, FileID |-> fileID, Caption |-> caption]

\* msg.Media; a record stored without the field decodes to a nil slice.
MediaOf(msg) == IF "Media" \in DOMAIN msg THEN msg.Media ELSE <<>>

\* "\n\nMedia:\n"
MediaHeading == <<10, 10, 77, 101, 100, 105, 97, 58, 10>>

\* "  Caption: "
CaptionLabel == <<32, 32, 67, 97, 112, 116, 105, 111, 110, 58, 32>>

\* "<p><strong>Media attachments:</strong></p><ul>"
MediaListOpen ==
    <<60, 112, 62, 60, 115, 116, 114, 111, 110, 103, 62>> \o
    <<77, 101, 100, 105, 97, 32, 97, 116, 116, 97, 99, 104, 109, 101, 110, 116, 115, 58>> \o
    <<60, 47, 115, 116, 114, 111, 110, 103, 62, 60, 47, 112, 62, 60, 117, 108, 62>>

RECURSIVE mediaLines(_)
\* messageToFeedItem: the lines "- type: file\n" and "  Caption: c\n" the
\* description gets for the media.
mediaLines(media) ==
    IF media = <<>> THEN <<>>
    ELSE LET m == Head(media)
         IN  <<45, 32>> \o m.Type \o <<58, 32>> \o m.FileID \o <<10>> \o
             (IF m.Caption # <<>> THEN CaptionLabel \o m.Caption \o <<10>> ELSE <<>>) \o
             mediaLines(Tail(media))

RECURSIVE mediaItems(_)
\* messageToFeedItem: the elements "<li>type: file</li>" of the content.
mediaItems(media) ==
    IF media = <<>> THEN <<>>
    ELSE LET m == Head(media)
         IN  <<60, 108, 105, 62>> \o m.Type \o <<58, 32>> \o m.FileID \o
             <<60, 47, 108, 105, 62>> \o mediaItems(Tail(media))

\* messageToFeedItem: the description, the text or "No text content" and the
\* media lines.
itemDescription(msg) ==
    (IF msg.Text = <<>> THEN NoTextContent ELSE msg.Text) \o
    (IF Len(MediaOf(msg)) > 0 THEN MediaHeading \o mediaLines(MediaOf(msg)) ELSE <<>>)

\* messageToFeedItem: the content, the escaped description in a paragraph and
\* the list of the media.
itemContent(msg) ==
    <<60, 112, 62>> \o escapeHTML(itemDescription(msg)) \o <<60, 47, 112, 62>> \o
    (IF Len(MediaOf(msg)) > 0
     THEN MediaListOpen \o mediaItems(MediaOf(msg)) \o <<60, 47, 117, 108, 62>>
     ELSE <<>>)

\* Service.messageToFeedItem
messageToFeedItem(msg) ==
    [Id |-> msg.ChannelID \o <<45>> \o FmtInt(msg.ID),
     Title |-> truncate(Bytes(msg.Text), 100),
     Description |-> itemDescription(msg),
     Content |-> itemContent(msg)]

\* What GenerateFeed returns with an error.
NoFeed == [Title |-> <<>>, Link |-> <<>>, Items |-> <<>>]

\* A mutant of channelLookupFails: the feed of an inactive channel is refused.
channelLookupFailsOrInactive(res) == res.err # "nil" \/ ~res.channel.IsActive

\* GenerateFeed: the channel lookup ends the call.
channelLookupFails(res) == res.err # "nil"

\* A mutant of feedItems: the last message fetched gets no entry.
feedItemsButLast(messages) ==
    [i \in 1..(IF Len(messages) = 0 THEN 0 ELSE Len(messages) - 1) |->
        messageToFeedItem(messages[i])]

\* GenerateFeed: one item per message fetched, in the order fetched.
feedItems(messages) == [i \in 1..Len(messages) |-> messageToFeedItem(messages[i])]

\* feed Service.GenerateFeed: the results a call can have.  cause is the
\* error of the store that the returned error wraps.
GenerateFeed(chFiles, msgFiles, channelID, baseURL) ==
    UNION {
        IF channelLookupFails(ch)
        THEN {[err |-> "channel", cause |-> ch.err, feed |-> NoFeed, unreadable |-> {}]}
        ELSE {IF ms.err # "nil"
              THEN [err |-> "messages", cause |-> ms.err, feed |-> NoFeed,
                    unreadable |-> {}]
              ELSE [err |-> "nil", cause |-> "nil",
                    feed |-> [Title |-> ch.channel.Title \o RSSFeedSuffix,
                              Link |-> baseURL \o RSSPath \o ch.channel.ID,
                              Items |-> feedItems(ms.list)],
                    unreadable |-> ms.unreadable]
                 : ms \in GetMessages(msgFiles, channelID, FeedWindow)}
        : ch \in GetChannel(chFiles, channelID)}

\* A call that has not returned.
NoResult == [err |-> "none"]

\* A call of GetMessages or of GenerateFeed returns.
CallListing ==
    /\ probe.pc = "call"
    /\ probe.op = "GetMessages"
    /\ \E res \in GetMessages(messageFiles, probe.channelID, probe.limit) :
          probe' = [probe EXCEPT !.pc = "done", !.res = res]
    /\ UNCHANGED <<storeVars, ingestVars, commandVars, monitorVars>>

CallGenerateFeed ==
    /\ probe.pc = "call"
    /\ probe.op = "GenerateFeed"
    /\ \E res \in GenerateFeed(channelFiles, messageFiles, probe.channelID, probe.baseURL) :
          probe' = [probe EXCEPT !.pc = "done", !.res = res]
    /\ UNCHANGED <<storeVars, ingestVars, commandVars, monitorVars>>

(***************************************************************************)
(* Specification of the read side                                          *)
(***************************************************************************)

\* "http://h"
BaseURL == <<104, 116, 116, 112, 58, 47, 47, 104>>

\* A stored message of chat 42.
StoredMessage(id) == Message(id, FmtInt(42), TitleOf(42), <<97>>, id)

\* A messages directory of chat 42: the parseable records and the ids whose
\* file is truncated.
MessageDir(ids, broken) ==
    [p \in {MessagePath(StoredMessage(id)) : id \in ids \cup broken} |->
        LET id == CHOOSE i \in ids \cup broken : MessagePath(StoredMessage(i)) = p
        IN  IF id \in broken THEN Truncated ELSE Marshal(StoredMessage(id))]

\* The messages directories the read side starts from: any ids of 2, 9, 10,
\* each file parseable or truncated, and the ids 1..51 and 1..50.
FeedMessageDirs ==
    {MessageDir(ids, broken) : ids \in SUBSET {2, 9, 10}, broken \in SUBSET {2, 9, 10}}
    \cup {MessageDir(1..(FeedWindow + 1), {}), MessageDir(1..FeedWindow, {})}

\* The channels directories the read side starts from: chat 42 unregistered,
\* inactive or active.
FeedChannelDirs ==
    {EmptyDir} \cup {ChannelDir({StoredChannel(42, <<>>, a)}) : a \in BOOLEAN}

\* The calls probed.
FeedCalls ==
    {[pc |-> "call", op |-> "GetMessages", channelID |-> FmtInt(42), limit |-> l,
      baseURL |-> <<>>, res |-> NoResult] : l \in 0..MaxLimit}
    \cup {[pc |-> "call", op |-> "GenerateFeed", channelID |-> FmtInt(42), limit |-> 0,
           baseURL |-> BaseURL, res |-> NoResult]}

InitFeed ==
    /\ channelFiles \in FeedChannelDirs
    /\ messageFiles \in FeedMessageDirs
    /\ now = 1
    /\ probe \in FeedCalls
    /\ IdleIngests /\ IdleCommands /\ IdleMonitor

NextFeed == CallListing \/ CallGenerateFeed

SpecFeed == InitFeed /\ [][NextFeed]_vars

(***************************************************************************)
(* C11, C12, C13: listing and feed                                         *)
(***************************************************************************)

\* The ids of the parseable Messages stored for a channel.
StoredIds(files, channelID) ==
    {Unmarshal(files[p]).ID :
        p \in {q \in DOMAIN files : q[1] = channelID /\ Parses(files[q])}}

\* The k highest numbers of S.
Highest(S, k) == {x \in S : Cardinality({y \in S : y > x}) < k}

\* The smaller of two numbers.
Min(a, b) == IF a <= b THEN a ELSE b

\* The ids of a list of Messages.
IdsOf(list) == {list[i].ID : i \in 1..Len(list)}

\* A call of GetMessages has returned a list, every file having been read.
ListingReturned ==
    /\ probe.pc = "done"
    /\ probe.op = "GetMessages"
    /\ probe.res.err = "nil"
    /\ probe.res.unreadable = {}

\* C11: GetMessages(channelId, limit) returns min(limit, n) of the channel's
\* n stored Messages, and they are those with the highest sequence ids.
C11_GetMessagesMostRecent ==
    ListingReturned =>
        LET ids == StoredIds(messageFiles, probe.channelID)
            k == Min(probe.limit, Cardinality(ids))
        IN  /\ Len(probe.res.list) = k
            /\ IdsOf(probe.res.list) = Highest(ids, k)

\* C11, as far as the code goes: GetMessages returns min(limit, n) distinct
\* stored Messages, those whose file names come last in byte order.
C11_GetMessagesLastNames ==
    ListingReturned =>
        LET ids == StoredIds(messageFiles, probe.channelID)
            k == Min(probe.limit, Cardinality(ids))
            later(x) == {y \in ids : LexLess(FmtInt(x), FmtInt(y))}
        IN  /\ Len(probe.res.list) = k
            /\ Cardinality(IdsOf(probe.res.list)) = k
            /\ IdsOf(probe.res.list) = {x \in ids : Cardinality(later(x)) < k}

\* C11: a call has returned fewer Messages than are stored.
C11_Witness ==
    /\ ListingReturned
    /\ 0 < probe.limit
    /\ Len(probe.res.list) = probe.limit
    /\ probe.limit < Cardinality(StoredIds(messageFiles, probe.channelID))

\* A call of GenerateFeed has returned.
FeedReturned == probe.pc = "done" /\ probe.op = "GenerateFeed"

\* The entry id of a Message: "{channelId}-{messageId}".
EntryId(channelID, id) == channelID \o <<45>> \o FmtInt(id)

\* The entry ids of a feed.
EntryIds(feed) == {feed.Items[i].Id : i \in 1..Len(feed.Items)}

\* C12: GenerateFeed fails and returns no feed when no Channel is stored
\* under the id; when the Channel is stored it succeeds, active or not (unless
\* the file system fails a read), and the feed of an inactive channel has an
\* entry for each of its stored Messages (up to the window of 50).
C12_FeedNeedsChannelNotActivity ==
    FeedReturned =>
        /\ NotStored(channelFiles, probe.channelID) =>
              probe.res.err # "nil" /\ probe.res.feed = NoFeed
        /\ /\ ~NotStored(channelFiles, probe.channelID)
           /\ Parses(channelFiles[ChannelPath(probe.channelID)])
           => probe.res.err = "nil" \/ probe.res.cause \in {"read", "readdir"}
        /\ /\ StoredInactive(channelFiles, probe.channelID)
           /\ probe.res.err = "nil"
           /\ probe.res.unreadable = {}
           /\ Cardinality(StoredIds(messageFiles, probe.channelID)) <= FeedWindow
           => EntryIds(probe.res.feed) =
                 {EntryId(probe.channelID, id) :
                     id \in StoredIds(messageFiles, probe.channelID)}

\* C12: the feed of an inactive channel with stored Messages was generated.
C12_Witness ==
    /\ FeedReturned
    /\ StoredInactive(channelFiles, probe.channelID)
    /\ probe.res.err = "nil"
    /\ Len(probe.res.feed.Items) >= 2

\* C13: a generated feed for a channel with n stored parseable Messages has
\* exactly min(50, n) entries, one per Message fetched, and their entry ids
\* "{channelId}-{messageId}" are pairwise distinct.
C13_FeedWindowAndDistinctIds ==
    FeedReturned /\ probe.res.err = "nil" /\ probe.res.unreadable = {} =>
        LET ids == StoredIds(messageFiles, probe.channelID)
            items == probe.res.feed.Items
        IN  /\ Len(items) = Min(FeedWindow, Cardinality(ids))
            /\ \A i \in 1..Len(items), j \in 1..Len(items) :
                  items[i].Id = items[j].Id => i = j
            /\ EntryIds(probe.res.feed) \subseteq {EntryId(probe.channelID, id) : id \in ids}

\* C13: a feed of 50 entries was generated for a channel with 51 stored
\* Messages.
C13_Witness ==
    /\ FeedReturned /\ probe.res.err = "nil" /\ probe.res.unreadable = {}
    /\ Cardinality(StoredIds(messageFiles, probe.channelID)) = FeedWindow + 1
    /\ Len(probe.res.feed.Items) = FeedWindow

(***************************************************************************)
(* The flat implementation of the ingest: BotHandler.processChannelPost    *)
(***************************************************************************)

\* BotHandler.passesFilters, one enabled filter: lo.ContainsBy over the
\* keywords with containsKeyword.
flatFilterRejects(filter, text) ==
    LET any == \E i \in 1..Len(filter.Keywords) : containsKeyword(text, filter.Keywords[i])
    IN  CASE filter.Type = FilterTypeKeywords -> ~any
          [] filter.Type = FilterTypeExcludeKeywords -> any
          [] OTHER -> FALSE

\* BotHandler.passesFilters, on the text of the post or else its caption.
flatPassesFilters(filters, post) ==
    \A i \in 1..Len(filters) :
        filters[i].Enabled => ~flatFilterRejects(filters[i], EffectiveText(post))

\* BotHandler.processChannelPost: the results a call can have.  fault tells
\* whether the file system failed an operation of the call.
flatProcessChannelPost(chFiles, msgFiles, post) ==
    UNION {
        IF postIgnored(res)
        THEN {[decision |-> "ignored", fault |-> res.err = "read", messageFiles |-> msgFiles]}
        ELSE IF ~flatPassesFilters(res.channel.Filters, post)
        THEN {[decision |-> "rejected", fault |-> FALSE, messageFiles |-> msgFiles]}
        ELSE {[decision |-> IF r.err = "nil" THEN "accepted" ELSE "error",
               fault |-> r.err # "nil",
               messageFiles |-> r.files]
                 : r \in SaveMessage(msgFiles,
                                     Message(post.ID, FmtInt(post.ChatID),
                                             res.channel.Title, post.Text, post.Date))}
        : res \in GetChannel(chFiles, FmtInt(post.ChatID))}

\* The flat handler processes the post, on its own copy of the store.
FlatProcessChannelPost ==
    /\ probe.pc = "call"
    /\ \E post \in posts :
          \E res \in flatProcessChannelPost(probe.channelFiles, probe.messageFiles, post) :
             probe' = [probe EXCEPT !.pc = "done", !.decision = res.decision,
                                    !.fault = res.fault,
                                    !.messageFiles = res.messageFiles]
    /\ UNCHANGED <<storeVars, ingestVars, commandVars, monitorVars>>

(***************************************************************************)
(* Specification of the two implementations side by side                   *)
(***************************************************************************)

\* An enabled include filter with the keyword U+00C4.
IncludeUpperAUmlaut == Filter(FilterTypeKeywords, <<(<<196>>)>>, TRUE)

\* The channels directories the comparison starts from.
EquivChannelDirs ==
    IngestChannelDirs \cup {ChannelDir({StoredChannel(42, <<IncludeUpperAUmlaut>>, TRUE)})}

\* One post, the same store for both implementations: the modular one works
\* on channelFiles and messageFiles, the flat one on the copy in probe.
InitEquiv ==
    /\ channelFiles \in EquivChannelDirs
    /\ IdleStore
    /\ \E post \in IngestPosts : posts = {post}
    /\ ing = [w \in Workers |-> IdleIngest]
    /\ probe = [pc |-> "call", channelFiles |-> channelFiles,
                messageFiles |-> messageFiles, decision |-> "none", fault |-> FALSE]
    /\ IdleCommands /\ IdleMonitor

NextEquiv == Ingest(1) \/ FlatProcessChannelPost

SpecEquiv == InitEquiv /\ [][NextEquiv]_vars

(***************************************************************************)
(* C14: the flat and the modular implementation of the ingest              *)
(***************************************************************************)

\* A channel id has a readable record of an active channel.
StoredActive(files, channelID) ==
    /\ ChannelPath(channelID) \in DOMAIN files
    /\ Parses(files[ChannelPath(channelID)])
    /\ Unmarshal(files[ChannelPath(channelID)]).IsActive

\* What the modular implementation decided about the post, once it returned.
ModularDecision ==
    CASE ing[1].ret = "none" -> "ignored"
      [] ing[1].ret = "error" -> "error"
      [] ing[1].message = ZeroMessage -> "rejected"
      [] OTHER -> "accepted"

\* The file system failed an operation of the modular implementation.
ModularFault ==
    \/ ing[1].err # "nil"
    \/ /\ ing[1].ret = "none"
       /\ StoredActive(probe.channelFiles, FmtInt(ing[1].post.ChatID))

\* Both implementations have processed the post, and no file operation failed.
BothProcessed ==
    /\ ing[1].pc = "done" /\ probe.pc = "done"
    /\ ~ModularFault /\ ~probe.fault

SameDecision == BothProcessed => ModularDecision = probe.decision

SameStoredMessage == BothProcessed => messageFiles = probe.messageFiles

SameStoredChannel == BothProcessed => channelFiles = probe.channelFiles

\* C14: for every post and every initial store, the flat and the modular
\* implementation make the same accept/reject decision and leave the same
\* stored Message and the same stored Channel record.
C14_FlatEqualsModular == SameDecision /\ SameStoredMessage /\ SameStoredChannel

\* What the two implementations do share: a post both ignore or both reject
\* leaves both stores as they were.
C14_AgreeWhenNothingStored ==
    BothProcessed /\ ModularDecision = probe.decision /\ probe.decision # "accepted"
        => /\ messageFiles = probe.messageFiles
           /\ channelFiles = probe.channelFiles

\* Both implementations accepted a post.
C14_Witness ==
    BothProcessed /\ ModularDecision = "accepted" /\ probe.decision = "accepted"

(***************************************************************************)
(* User store and the other command handlers: handleStart,                 *)
(* handleRemoveChannel, handleRemoveFilter                                 *)
(***************************************************************************)

\* domain.User
User(id, username, addedAt, isAdmin) ==
    [ID |-> id, Username |-> username, AddedAt |-> addedAt, IsAdmin |-> isAdmin]

\* user FileStorage: the file of a user id.
UserPath(userID) == FmtInt(userID) \o DotJson

\* user FileStorage.SaveUser: the results a call can have.
SaveUser(files, user) ==
    LET path == UserPath(user.ID)
    IN  {[err |-> "nil", files |-> WriteFile(files, path, Marshal(user))]} \cup
        {[err |-> "write", files |-> f] : f \in WriteFileFailed(files, path)}

\* user FileStorage.GetUser: the errors a call can return.
GetUser(files, userID) ==
    LET path == UserPath(userID)
    IN  {"read"} \cup
        (IF path \notin DOMAIN files THEN {"notfound"}
         ELSE IF ~Parses(files[path]) THEN {"unmarshal"}
         ELSE {"nil"})

\* The users stored and parseable.
StoredUsers(files) == {Unmarshal(files[p]) : p \in {q \in DOMAIN files : Parses(files[q])}}

\* channel FileStorage.DeleteChannel: os.Remove of the file of the channel.
DeleteChannel(files, channelID) ==
    LET path == ChannelPath(channelID)
    IN  {[err |-> "remove", files |-> files]} \cup
        (IF path \in DOMAIN files
         THEN {[err |-> "nil", files |-> RemoveFile(files, path)]}
         ELSE {})

\* A /removefilter message: the sender, the channel id and the index that
\* strconv.Atoi reads from the third word.
RemoveFilterCommand(from, arg, index) ==
    [Op |-> "removefilter", From |-> from, Arg |-> arg, Index |-> index]

\* Handler.handleStart (and handleHelp, which calls it): a sender that is not
\* authorized is registered as administrator when no allow-list is configured
\* and turned away otherwise; an authorized sender gets the welcome text.
HandleStart(h) ==
    /\ hnd[h].pc = "idle"
    /\ now < MaxTime
    /\ \E cmd \in {c \in cmds : c.Op = "start"} :
          /\ hnd' = [hnd EXCEPT ![h] = [@ EXCEPT !.pc = "done", !.cmd = cmd]]
          /\ IF ~IsAuthorized(cmd.From, allowedUsers) /\ allowedUsers = {}
             THEN \E res \in SaveUser(userFiles,
                                      User(cmd.From, UsernameOf(cmd.From), now, TRUE)) :
                     /\ userFiles' = res.files
                     /\ now' = now + 1
             ELSE UNCHANGED <<userFiles, now>>
    /\ UNCHANGED <<channelFiles, messageFiles, ingestVars, cmds, allowedUsers,
                   monitorVars, probe>>

\* handleRemoveChannel up to Service.DeleteChannel, which first takes the id
\* out of the active set.
HandleRemoveChannel(h) ==
    /\ hnd[h].pc = "idle"
    /\ \E cmd \in {c \in cmds : c.Op = "removechannel"} :
          IF ~IsAuthorized(cmd.From, allowedUsers)
          THEN /\ hnd' = [hnd EXCEPT ![h] = [@ EXCEPT !.pc = "done", !.cmd = cmd]]
               /\ UNCHANGED channels
          ELSE /\ hnd' = [hnd EXCEPT ![h] = [@ EXCEPT !.pc = "deleteChannel", !.cmd = cmd]]
               /\ channels' = RemoveChannel(channels, cmd.Arg)
    /\ UNCHANGED <<storeVars, ingestVars, cmds, allowedUsers, userFiles, bot, cancelled,
                   wg, syncStart, start, stop, loop, tick, units, sweeps, probe>>

\* A mutant of HandleRemoveChannelDelete: the messages of the channel are
\* removed with its record.
HandleRemoveChannelPurge(h) ==
    /\ hnd[h].pc = "deleteChannel"
    /\ \E res \in DeleteChannel(channelFiles, hnd[h].cmd.Arg) :
          /\ channelFiles' = res.files
          /\ messageFiles' =
                IF res.err = "nil"
                THEN [p \in {q \in DOMAIN messageFiles : q[1] # hnd[h].cmd.Arg} |->
                         messageFiles[p]]
                ELSE messageFiles
          /\ hnd' = [hnd EXCEPT ![h] =
                       [@ EXCEPT !.pc = "done",
                                 !.reply = IF res.err = "nil" THEN "removed" ELSE "failed"]]
    /\ UNCHANGED <<now, ingestVars, cmds, allowedUsers, userFiles, monitorVars, probe>>

\* Service.DeleteChannel: s.channelRepo.DeleteChannel(channelID); the handler
\* answers "Channel removed" or "Failed to remove channel".
HandleRemoveChannelDelete(h) ==
    /\ hnd[h].pc = "deleteChannel"
    /\ \E res \in DeleteChannel(channelFiles, hnd[h].cmd.Arg) :
          /\ channelFiles' = res.files
          /\ hnd' = [hnd EXCEPT ![h] =
                       [@ EXCEPT !.pc = "done",
                                 !.reply = IF res.err = "nil" THEN "removed" ELSE "failed"]]
    /\ UNCHANGED <<messageFiles, now, ingestVars, cmds, allowedUsers, userFiles,
                   monitorVars, probe>>

\* A mutant of cutFilter: the index is taken as 0-based.
cutFilterZeroBased(filters, index) ==
    SubSeq(filters, 1, index) \o SubSeq(filters, index + 2, Len(filters))

\* handleRemoveFilter: append(channel.Filters[:index-1], channel.Filters[index:]...)
cutFilter(filters, index) ==
    SubSeq(filters, 1, index - 1) \o SubSeq(filters, index + 1, Len(filters))

\* handleRemoveFilter up to the index check on the channel it read.
HandleRemoveFilter(h) ==
    /\ hnd[h].pc = "idle"
    /\ \E cmd \in {c \in cmds : c.Op = "removefilter"} :
          IF ~IsAuthorized(cmd.From, allowedUsers) \/ cmd.Index < 1
          THEN hnd' = [hnd EXCEPT ![h] = [@ EXCEPT !.pc = "done", !.cmd = cmd]]
          ELSE \E res \in GetChannel(channelFiles, cmd.Arg) :
                  hnd' = [hnd EXCEPT ![h] =
                            IF res.err # "nil" \/ cmd.Index > Len(res.channel.Filters)
                            THEN [@ EXCEPT !.pc = "done", !.cmd = cmd]
                            ELSE [@ EXCEPT !.pc = "removeFilter", !.cmd = cmd,
                                           !.channel = res.channel]]
    /\ UNCHANGED <<storeVars, ingestVars, cmds, allowedUsers, userFiles, monitorVars, probe>>

\* handleRemoveFilter: cut the filter out, h.channelService.SaveChannel(channel),
\* answer "Filter removed" or "Failed to remove filter".
HandleRemoveFilterSave(h) ==
    /\ hnd[h].pc = "removeFilter"
    /\ LET index == hnd[h].cmd.Index
           channel == [hnd[h].channel EXCEPT !.Filters = cutFilter(@, index)]
       IN  \E res \in SaveChannel(channelFiles, channel) :
              /\ channelFiles' = res.files
              /\ hnd' = [hnd EXCEPT ![h] =
                           [@ EXCEPT !.pc = "done", !.channel = channel,
                                     !.reply = IF res.err = "nil" THEN "removed"
                                               ELSE "failed"]]
    /\ UNCHANGED <<messageFiles, now, ingestVars, cmds, allowedUsers, userFiles,
                   monitorVars, probe>>

(***************************************************************************)
(* Specification of the command handlers                                   *)
(***************************************************************************)

\* The users that send commands.
Users == {1, 2}

\* The commands each user may send.
CommandsOf(u) ==
    {Command("start", u, <<>>, 0, <<>>, <<>>),
     Command("addchannel", u, <<64>> \o UsernameOf(43), 43, TitleOf(43), <<>>),
     Command("removechannel", u, FmtInt(42), 0, <<>>, <<>>),
     Command("addfilter", u, FmtInt(42), 0, <<>>, <<<<97>>>>),
     RemoveFilterCommand(u, FmtInt(42), 1)}

\* The ids Service.Start puts into the active set from a channels directory.
ActiveIds(files) == {c.ID : c \in {d \in StoredChannels(files) : d.IsActive}}

\* The monitor when Start has returned, with the given active set.
RunningMonitor(ids) ==
    /\ channels = ids
    /\ cancelled = FALSE
    /\ wg = 1
    /\ start = [pc |-> "returned", list |-> <<>>, err |-> "nil", skipped |-> {}]
    /\ stop = [pc |-> "idle", busy |-> FALSE, ticks |-> 0]
    /\ loop = [pc |-> "check", ids |-> {}]
    /\ tick = [fired |-> 0, pending |-> FALSE]
    /\ units = {}
    /\ sweeps = <<>>
    /\ bot = TRUE
    /\ syncStart = TRUE

\* The monitor when Start has returned on a channels directory it could read.
StartedMonitor(files) == RunningMonitor(ActiveIds(files))

\* A running bot: channel 42 registered with or without a filter, the active
\* set as Start loaded it, no allow-list or user 1 allowed, and the users
\* directory empty.
InitCommands ==
    /\ channelFiles \in {ChannelDir({StoredChannel(42, fs, TRUE)}) : fs \in {<<>>, IncludeA}}
    /\ IdleStore
    /\ IdleIngests
    /\ cmds = UNION {CommandsOf(u) : u \in Users}
    /\ hnd = [h \in Handlers |-> IdleHandler]
    /\ allowedUsers \in {{}, {1}}
    /\ userFiles = EmptyDir
    /\ StartedMonitor(channelFiles) /\ IdleProbe

NextCommands ==
    \E h \in Handlers :
        \/ HandleCommand(h)
        \/ HandleStart(h)
        \/ HandleRemoveChannel(h)
        \/ HandleRemoveChannelDelete(h)
        \/ HandleRemoveFilter(h)
        \/ HandleRemoveFilterSave(h)

SpecCommands == InitCommands /\ [][NextCommands]_vars

(***************************************************************************)
(* The flat implementation of the authorization: BotHandler                *)
(***************************************************************************)

\* BotHandler.checkAuthorization, err being what h.storage.GetUser returned:
\* membership in a configured allow-list, else a readable user record.
flatCheckAuthorization(userID, allowed, err) ==
    IF allowed # {} THEN userID \in allowed ELSE err = "nil"

\* BotHandler.handleStart: a sender that is not authorized is registered as
\* administrator when no allow-list is configured and turned away otherwise.
FlatHandleStart(h) ==
    /\ hnd[h].pc = "idle"
    /\ now < MaxTime
    /\ \E cmd \in {c \in cmds : c.Op = "start"} :
          /\ hnd' = [hnd EXCEPT ![h] = [@ EXCEPT !.pc = "done", !.cmd = cmd]]
          /\ \E err \in GetUser(userFiles, cmd.From) :
                IF ~flatCheckAuthorization(cmd.From, allowedUsers, err) /\ allowedUsers = {}
                THEN \E res \in SaveUser(userFiles,
                                         User(cmd.From, UsernameOf(cmd.From), now, TRUE)) :
                        /\ userFiles' = res.files
                        /\ now' = now + 1
                ELSE UNCHANGED <<userFiles, now>>
    /\ UNCHANGED <<channelFiles, messageFiles, ingestVars, cmds, allowedUsers,
                   monitorVars, probe>>

\* The flat bot with /start messages from three users.
InitFlatStart ==
    /\ channelFiles = EmptyDir
    /\ IdleStore
    /\ IdleIngests
    /\ cmds = {Command("start", u, <<>>, 0, <<>>, <<>>) : u \in Users \cup {3}}
    /\ hnd = [h \in Handlers |-> IdleHandler]
    /\ allowedUsers \in {{}, {1}}
    /\ userFiles = EmptyDir
    /\ IdleMonitor /\ IdleProbe

NextFlatStart == \E h \in Handlers : FlatHandleStart(h)

SpecFlatStart == InitFlatStart /\ [][NextFlatStart]_vars

(***************************************************************************)
(* C15, C16: authorization of commands                                     *)
(***************************************************************************)

\* The sender of the command handler h works on in a step h takes.
SenderOf(h) == IF hnd[h].pc = "idle" THEN hnd'[h].cmd.From ELSE hnd[h].cmd.From

\* C15: with a non-empty allow-list, no step of a command sent by a user who
\* is not in the list changes the channel store (so no filter list either),
\* the user store or the monitor's active set; the flat check turns away
\* exactly the same users.
C15_UnauthorizedChangesNothing ==
    [][allowedUsers # {} =>
          /\ \A h \in Handlers :
                hnd'[h] # hnd[h] /\ SenderOf(h) \notin allowedUsers
                    => /\ hnd'[h].pc = "done"
                       /\ UNCHANGED <<channelFiles, userFiles, channels>>
          /\ \A u \in Users : \A err \in GetUser(userFiles, u) :
                flatCheckAuthorization(u, allowedUsers, err) = IsAuthorized(u, allowedUsers)
      ]_vars

\* A user outside a non-empty allow-list has sent /addchannel and
\* /removechannel, and both handlers have returned.
C15_Witness ==
    /\ allowedUsers # {}
    /\ \E h, k \in Handlers :
          /\ hnd[h].pc = "done" /\ hnd[h].cmd.Op = "addchannel"
          /\ hnd[k].pc = "done" /\ hnd[k].cmd.Op = "removechannel"
          /\ hnd[h].cmd.From \notin allowedUsers
          /\ hnd[k].cmd.From \notin allowedUsers

\* The administrators the users directory holds.
Administrators == {u \in StoredUsers(userFiles) : u.IsAdmin}

\* C16: with an empty allow-list, once a /start has been handled exactly one
\* User record with isAdmin = true is stored.
C16_FirstStarterIsAdministrator ==
    /\ allowedUsers = {}
    /\ \E h \in Handlers : hnd[h].pc = "done" /\ hnd[h].cmd.Op = "start"
    => Cardinality(Administrators) = 1

\* The flat handler never stores more than one administrator.
C16_FlatAtMostOneAdministrator == Cardinality(Administrators) <= 1

\* What the modular handler does instead: it never writes a user record, and
\* with an empty allow-list it lets every sender through.
C16_ModularRegistersNobody ==
    /\ userFiles = EmptyDir
    /\ allowedUsers = {} => \A u \in Users : IsAuthorized(u, allowedUsers)

(***************************************************************************)
(* C17: the active set and the stored isActive flag                        *)
(***************************************************************************)

\* C17: the monitor's active set contains no id whose stored Channel record
\* has isActive = false.
C17_ActiveSetHasNoInactive ==
    \A id \in channels : ~StoredInactive(channelFiles, id)

\* The same, as long as no handler has taken an /addfilter: the handlers of
\* /addfilter are the ones that write back a Channel they read earlier.
C17_HoldsWithoutStaleSnapshot ==
    (\A h \in Handlers : hnd[h].pc # "saveFilter" /\ hnd[h].cmd.Op # "addfilter")
        => C17_ActiveSetHasNoInactive

(***************************************************************************)
(* Specification of the active set under AddChannel and RemoveChannel      *)
(***************************************************************************)

\* The ids callers pass to the monitor.
MonitorIds == {FmtInt(42), FmtInt(43), FmtInt(44), FmtInt(45)}

\* A caller runs Service.AddChannel(channelID), under the exclusive lock.
CallAddChannel ==
    /\ \E channelID \in MonitorIds :
          /\ channels' = AddChannel(channels, channelID)
          /\ probe' = [pc |-> "called", op |-> "AddChannel", id |-> channelID,
                       before |-> channels]
    /\ UNCHANGED <<storeVars, ingestVars, commandVars, bot, cancelled, wg, syncStart,
                   start, stop, loop, tick, units, sweeps>>

\* A caller runs Service.RemoveChannel(channelID), under the exclusive lock.
CallRemoveChannel ==
    /\ \E channelID \in MonitorIds :
          /\ channels' = RemoveChannel(channels, channelID)
          /\ probe' = [pc |-> "called", op |-> "RemoveChannel", id |-> channelID,
                       before |-> channels]
    /\ UNCHANGED <<storeVars, ingestVars, commandVars, bot, cancelled, wg, syncStart,
                   start, stop, loop, tick, units, sweeps>>

InitActiveSet ==
    /\ channelFiles = EmptyDir
    /\ IdleStore /\ IdleIngests /\ IdleCommands /\ IdleMonitor
    /\ probe = [pc |-> "none", op |-> "none", id |-> <<>>, before |-> {}]

NextActiveSet == CallAddChannel \/ CallRemoveChannel

SpecActiveSet == InitActiveSet /\ [][NextActiveSet]_vars

(***************************************************************************)
(* C18: AddChannel and RemoveChannel are idempotent                        *)
(***************************************************************************)

\* C18: on every active set, adding an id twice gives what adding it once
\* gives, removing an absent id changes nothing, and neither touches the
\* membership of another id; the calls made show the same.
C18_AddRemoveIdempotent ==
    /\ \A id \in MonitorIds :
          /\ AddChannel(AddChannel(channels, id), id) = AddChannel(channels, id)
          /\ id \notin channels => RemoveChannel(channels, id) = channels
          /\ \A other \in MonitorIds \ {id} :
                /\ (other \in AddChannel(channels, id)) = (other \in channels)
                /\ (other \in RemoveChannel(channels, id)) = (other \in channels)
    /\ probe.pc = "called" =>
          /\ probe.op = "AddChannel" /\ probe.id \in probe.before => channels = probe.before
          /\ probe.op = "RemoveChannel" /\ probe.id \notin probe.before
                => channels = probe.before
          /\ \A other \in MonitorIds \ {probe.id} :
                (other \in channels) = (other \in probe.before)

\* AddChannel has just been called with an id the set held, next to another id.
C18_Witness ==
    /\ probe.pc = "called" /\ probe.op = "AddChannel"
    /\ probe.id \in probe.before
    /\ probe.before \ {probe.id} # {}

(***************************************************************************)
(* C19: what Start loads                                                   *)
(***************************************************************************)

\* Start has gone through the list it loaded, and nothing has written to the
\* store since: no sweep has begun.
LoadDone ==
    /\ \/ start.pc = "add" /\ start.list = <<>>
       \/ start.pc = "returned"
    /\ sweeps = <<>>

\* The ids of the stored active Channels whose files the load could read.
ReadableActiveIds ==
    {c.ID : c \in {d \in StoredChannels([p \in DOMAIN channelFiles \ start.skipped |->
                                            channelFiles[p]]) : d.IsActive}}

\* C19: after the load of Start on a fresh monitor the active set is exactly
\* the set of ids of the stored Channels with isActive = true; when listing
\* the channels fails the set is left as it was and the loop is still started.
C19_StartLoadsExactlyActive ==
    /\ LoadDone /\ start.err = "nil" => channels = ActiveIds(channelFiles)
    /\ LoadDone /\ start.err # "nil" => channels = {}
    /\ start.pc = "returned" => loop.pc # "none"

\* C19 as the code has it: the active set is exactly the set of ids of the
\* stored active Channels whose files could be read, a file that cannot be
\* read being skipped; when listing the channels fails the set is left as it
\* was, and in every case the loop is started.
C19_StartLoadsReadableActive ==
    /\ LoadDone /\ start.err = "nil" => channels = ReadableActiveIds
    /\ LoadDone /\ start.err # "nil" => channels = {}
    /\ start.pc = "returned" => loop.pc # "none"

\* Start has returned after a load that read one active Channel, skipped the
\* file of another and left an inactive one out.
C19_Witness ==
    /\ LoadDone /\ start.pc = "returned" /\ start.err = "nil"
    /\ start.skipped # {}
    /\ channels # {}
    /\ channels # ActiveIds(channelFiles)

(***************************************************************************)
(* Specification of the sweeps of a running monitor                        *)
(***************************************************************************)

\* The monitor has started and its loop runs, sweeps and is stopped.  The
\* active set is what Start loaded, or holds every id: an id stays in the set
\* when its record is made inactive or deleted afterwards.
InitSweep ==
    /\ channelFiles \in MonitorChannelDirs
    /\ IdleStore /\ IdleIngests /\ IdleCommands /\ IdleProbe
    /\ \E ids \in {ActiveIds(channelFiles), {FmtInt(c) : c \in ChatIds}} :
          RunningMonitor(ids)

NextSweep ==
    \/ StopCancel
    \/ StopWait
    \/ Tick
    \/ CheckChannels
    \/ SpawnUnit
    \/ LoopDone
    \/ LoopTick
    \/ \E u \in units : UnitFetch(u)
    \/ \E u \in units : UnitSave(u)

SpecSweep == InitSweep /\ [][NextSweep]_vars

(***************************************************************************)
(* C20: what a sweep unit writes                                           *)
(***************************************************************************)

\* The step is a step of the sweep unit u: every step of a unit replaces or
\* removes its record.
UnitSteps(u) == u \in units /\ u \notin units'

\* The files of the channels directory other than the file of channelID are
\* what they were.
OtherChannelsUnchanged(channelID) ==
    /\ DOMAIN channelFiles' \ {ChannelPath(channelID)}
          = DOMAIN channelFiles \ {ChannelPath(channelID)}
    /\ \A p \in DOMAIN channelFiles \ {ChannelPath(channelID)} :
          channelFiles'[p] = channelFiles[p]

\* The stored record of channelID is what the unit read, up to lastUpdate.
NoOtherWriter(u) ==
    /\ ChannelPath(u.id) \in DOMAIN channelFiles
    /\ Parses(channelFiles[ChannelPath(u.id)])
    /\ [Unmarshal(channelFiles[ChannelPath(u.id)]) EXCEPT !.LastUpdate = 0]
          = [u.channel EXCEPT !.LastUpdate = 0]

\* C20: a sweep unit for an id whose stored Channel is inactive ends without
\* writing to the store; a unit for an active Channel, no other writer having
\* changed the record since the unit read it, writes no Message and no other
\* Channel, and the record it persists is the stored one with lastUpdate set
\* to the time of the write and every other field as it was.
C20_SweepUnitFrame ==
    [][\A u \in units :
          /\ UnitSteps(u) /\ u.pc = "fetch"
                => /\ UNCHANGED <<channelFiles, messageFiles>>
                   /\ StoredInactive(channelFiles, u.id) => units' = units \ {u}
          /\ UnitSteps(u) /\ u.pc = "save"
                => /\ u.channel.IsActive
                   /\ UNCHANGED messageFiles
                   /\ OtherChannelsUnchanged(u.id)
                   /\ NoOtherWriter(u)
                         => LET path == ChannelPath(u.id)
                                stored == Unmarshal(channelFiles[path])
                            IN  /\ path \in DOMAIN channelFiles'
                                /\ Parses(channelFiles'[path])
                                      => Unmarshal(channelFiles'[path])
                                            \in {stored, [stored EXCEPT !.LastUpdate = now]}
                                /\ sweeps'[u.sweep].outcome[u.id] = "touched"
                                      => /\ Parses(channelFiles'[path])
                                         /\ Unmarshal(channelFiles'[path])
                                               = [stored EXCEPT !.LastUpdate = now]
      ]_vars

\* One sweep has found a stored Channel inactive and has touched an active one.
C20_Witness ==
    \E i \in 1..Len(sweeps) : \E a, b \in sweeps[i].ids :
        /\ sweeps[i].outcome[a] = "inactive"
        /\ StoredInactive(channelFiles, a)
        /\ sweeps[i].outcome[b] = "touched"
        /\ StoredActive(channelFiles, b)
        /\ Unmarshal(channelFiles[ChannelPath(b)]).LastUpdate > 0

(***************************************************************************)
(* The lock of the active set: Service.mu in AddChannel, RemoveChannel and *)
(* checkChannels                                                           *)
(***************************************************************************)

\* The goroutines that call AddChannel or RemoveChannel.
MaxCallers == 2

Callers == 1..MaxCallers

\* sync.RWMutex: the goroutines that hold it for writing and for reading.
\* The enumeration of checkChannels is goroutine 0.
FreeMutex == [writers |-> {}, readers |-> {}]

\* A mutant of canRLock: the enumeration does not wait for a writer.
canRLockAlways(mu) == TRUE

\* A mutant of canLock: a writer does not wait.
canLockAlways(mu) == TRUE

\* s.mu.Lock() returns when nobody holds the lock.
canLock(mu) == mu.writers = {} /\ mu.readers = {}

\* s.mu.RLock() returns when no writer holds the lock.
canRLock(mu) == mu.writers = {}

\* What the variables of a run of the lock leave alone.
LockFrame ==
    UNCHANGED <<storeVars, ingestVars, commandVars, bot, cancelled, wg, syncStart,
                start, stop, loop, tick, units, sweeps>>

\* AddChannel, RemoveChannel: s.mu.Lock().
MutLock(c) ==
    /\ probe.callers[c].pc = "idle"
    /\ canLock(probe.mu)
    /\ \E op \in {"AddChannel", "RemoveChannel"} : \E channelID \in ChannelIds :
          probe' = [probe EXCEPT !.mu.writers = @ \cup {c},
                                 !.callers[c] = [pc |-> "locked", op |-> op,
                                                 id |-> channelID]]
    /\ UNCHANGED channels
    /\ LockFrame

\* AddChannel: s.channels[channelID] = true; RemoveChannel: delete(s.channels,
\* channelID).
MutApply(c) ==
    /\ probe.callers[c].pc = "locked"
    /\ channels' = IF probe.callers[c].op = "AddChannel"
                   THEN AddChannel(channels, probe.callers[c].id)
                   ELSE RemoveChannel(channels, probe.callers[c].id)
    /\ probe' = [probe EXCEPT !.callers[c].pc = "applied"]
    /\ LockFrame

\* AddChannel, RemoveChannel: the deferred s.mu.Unlock().
MutUnlock(c) ==
    /\ probe.callers[c].pc = "applied"
    /\ probe' = [probe EXCEPT !.mu.writers = @ \ {c}, !.callers[c].pc = "idle"]
    /\ UNCHANGED channels
    /\ LockFrame

\* checkChannels: s.mu.RLock(); channelIDs := make([]string, 0, ...).
EnumRLock ==
    /\ probe.enum.pc = "idle"
    /\ canRLock(probe.mu)
    /\ probe' = [probe EXCEPT !.mu.readers = @ \cup {0},
                              !.enum = [pc |-> "range", seen |-> {}, list |-> <<>>]]
    /\ UNCHANGED channels
    /\ LockFrame

\* checkChannels: one round of for id := range s.channels, which yields a key
\* of the map it has not yet yielded.
EnumNext ==
    /\ probe.enum.pc = "range"
    /\ \E id \in channels \ probe.enum.seen :
          probe' = [probe EXCEPT !.enum.seen = @ \cup {id},
                                 !.enum.list = Append(@, id)]
    /\ UNCHANGED channels
    /\ LockFrame

\* checkChannels: the range is over; s.mu.RUnlock().
EnumRUnlock ==
    /\ probe.enum.pc = "range"
    /\ channels \ probe.enum.seen = {}
    /\ probe' = [probe EXCEPT !.mu.readers = @ \ {0}, !.enum.pc = "done"]
    /\ UNCHANGED channels
    /\ LockFrame

\* A monitor with any active set, its lock free, before a sweep enumerates.
InitLock ==
    /\ channelFiles = EmptyDir
    /\ IdleStore /\ IdleIngests /\ IdleCommands
    /\ \E ids \in SUBSET ChannelIds : RunningMonitor(ids)
    /\ probe = [mu |-> FreeMutex,
                callers |-> [c \in Callers |-> [pc |-> "idle", op |-> "none", id |-> <<>>]],
                enum |-> [pc |-> "idle", seen |-> {}, list |-> <<>>]]

NextLock ==
    \/ \E c \in Callers : MutLock(c)
    \/ \E c \in Callers : MutApply(c)
    \/ \E c \in Callers : MutUnlock(c)
    \/ EnumRLock
    \/ EnumNext
    \/ EnumRUnlock

SpecLock == InitLock /\ [][NextLock]_vars

(***************************************************************************)
(* C21: mutations and the enumeration of a sweep do not overlap            *)
(***************************************************************************)

\* The ids of a list.
Range(list) == {list[i] : i \in 1..Len(list)}

\* C21: at most one mutation holds the lock and none while the enumeration
\* holds it; the active set does not change from the RLock of checkChannels
\* to its RUnlock, and the list enumerated is the active set of that time,
\* each id once.
C21_EnumerationSeesOneInstant ==
    [][/\ Cardinality(probe.mu.writers) <= 1
       /\ probe.mu.writers # {} => probe.mu.readers = {}
       /\ probe.mu.readers # {} => channels' = channels
       /\ probe.enum.pc = "range" /\ probe'.enum.pc = "done"
             => /\ Range(probe.enum.list) = channels
                /\ Len(probe.enum.list) = Cardinality(channels)
      ]_vars

\* The enumeration has listed two ids while a caller that wants to change the
\* set has had to wait, and has changed it since.
C21_Witness ==
    /\ probe.enum.pc = "done"
    /\ Len(probe.enum.list) = 2
    /\ Range(probe.enum.list) # channels

(***************************************************************************)
(* The lock of the message store: FileStorage.mu in SaveMessage and        *)
(* GetMessages                                                             *)
(***************************************************************************)

\* The goroutines that call SaveMessage.
MaxWriters == 2

Writers == 1..MaxWriters

\* The message writer w saves: the writers share the channel and the message
\* id and differ in the text.
WriterMessage(w) == Message(7, FmtInt(42), TitleOf(42), <<96 + w>>, 100 + w)

\* Another writer has the same file open for writing.
OpenElsewhere(w) ==
    \E v \in Writers \ {w} :
        /\ probe.writers[v].pc = "opened"
        /\ MessagePath(WriterMessage(v)) = MessagePath(WriterMessage(w))

\* SaveMessage: s.mu.Lock().
SaveLock(w) ==
    /\ probe.writers[w].pc = "idle"
    /\ canLock(probe.mu)
    /\ probe' = [probe EXCEPT !.mu.writers = @ \cup {w}, !.writers[w].pc = "locked"]
    /\ UNCHANGED <<storeVars, ingestVars, commandVars, monitorVars>>

\* SaveMessage: os.WriteFile opens the file, which creates or truncates it;
\* the calls before it (MkdirAll, the open itself) can fail.
SaveOpen(w) ==
    /\ probe.writers[w].pc = "locked"
    /\ \/ /\ messageFiles' = WriteFile(messageFiles, MessagePath(WriterMessage(w)), Truncated)
          /\ probe' = [probe EXCEPT !.writers[w].pc = "opened"]
       \/ /\ probe' = [probe EXCEPT !.writers[w].pc = "returning", !.writers[w].err = "write"]
          /\ UNCHANGED messageFiles
    /\ UNCHANGED <<channelFiles, now, ingestVars, commandVars, monitorVars>>

\* SaveMessage: os.WriteFile writes the data and closes the file.  The write
\* can fail half way, and bytes of two writers in one file are no record.
SaveWrite(w) ==
    /\ probe.writers[w].pc = "opened"
    /\ \/ /\ messageFiles' = WriteFile(messageFiles, MessagePath(WriterMessage(w)),
                                       Marshal(WriterMessage(w)))
          /\ probe' = [probe EXCEPT !.writers[w].pc = "returning"]
       \/ /\ OpenElsewhere(w)
          /\ messageFiles' = WriteFile(messageFiles, MessagePath(WriterMessage(w)), Truncated)
          /\ probe' = [probe EXCEPT !.writers[w].pc = "returning"]
       \/ /\ probe' = [probe EXCEPT !.writers[w].pc = "returning", !.writers[w].err = "write"]
          /\ UNCHANGED messageFiles
    /\ UNCHANGED <<channelFiles, now, ingestVars, commandVars, monitorVars>>

\* SaveMessage: the deferred s.mu.Unlock().
SaveUnlock(w) ==
    /\ probe.writers[w].pc = "returning"
    /\ probe' = [probe EXCEPT !.mu.writers = @ \ {w}, !.writers[w].pc = "done"]
    /\ UNCHANGED <<storeVars, ingestVars, commandVars, monitorVars>>

\* GetMessages: s.mu.RLock().
ListRLock ==
    /\ probe.reader.pc = "idle"
    /\ canRLock(probe.mu)
    /\ probe' = [probe EXCEPT !.mu.readers = @ \cup {0}, !.reader.pc = "locked"]
    /\ UNCHANGED <<storeVars, ingestVars, commandVars, monitorVars>>

\* GetMessages: the directory and the files are read.
ListRead ==
    /\ probe.reader.pc = "locked"
    /\ \E res \in GetMessages(messageFiles, FmtInt(42), MaxLimit) :
          probe' = [probe EXCEPT !.reader.pc = "read", !.reader.list = res.list]
    /\ UNCHANGED <<storeVars, ingestVars, commandVars, monitorVars>>

\* GetMessages: the deferred s.mu.RUnlock().
ListRUnlock ==
    /\ probe.reader.pc = "read"
    /\ probe' = [probe EXCEPT !.mu.readers = @ \ {0}, !.reader.pc = "done"]
    /\ UNCHANGED <<storeVars, ingestVars, commandVars, monitorVars>>

\* The message store empty or holding an older record of the same key, its
\* lock free, two ingests about to save and a reader about to list.
InitMessageLock ==
    /\ channelFiles = ChannelDir({StoredChannel(42, <<>>, TRUE)})
    /\ messageFiles \in {EmptyDir, MessageDir({7}, {})}
    /\ now = 1
    /\ IdleIngests /\ IdleCommands /\ IdleMonitor
    /\ probe = [mu |-> FreeMutex,
                writers |-> [w \in Writers |-> [pc |-> "idle", err |-> "nil"]],
                reader |-> [pc |-> "idle", list |-> <<>>]]

NextMessageLock ==
    \/ \E w \in Writers : SaveLock(w)
    \/ \E w \in Writers : SaveOpen(w)
    \/ \E w \in Writers : SaveWrite(w)
    \/ \E w \in Writers : SaveUnlock(w)
    \/ ListRLock
    \/ ListRead
    \/ ListRUnlock

SpecMessageLock == InitMessageLock /\ [][NextMessageLock]_vars

(***************************************************************************)
(* C22: writers of the message store exclude each other and the readers    *)
(***************************************************************************)

\* Writer w is inside SaveMessage, between Lock and Unlock.
InSaveMessage(w) == probe.writers[w].pc \in {"locked", "opened", "returning"}

\* C22: no two ingests are inside SaveMessage at the same time and none while
\* GetMessages reads; what GetMessages returns are whole Messages, each the
\* record of one writer or the one stored before; and when two ingests of the
\* same key have both saved without error, the stored record is entirely the
\* Message of one of them.
C22_MessageStoreExclusion ==
    /\ \A v, w \in Writers : InSaveMessage(v) /\ InSaveMessage(w) => v = w
    /\ probe.reader.pc \in {"locked", "read"} => \A w \in Writers : ~InSaveMessage(w)
    /\ Range(probe.reader.list) \subseteq
          {WriterMessage(w) : w \in Writers} \cup {StoredMessage(7)}
    /\ (\A w \in Writers : probe.writers[w].pc = "done" /\ probe.writers[w].err = "nil")
          => /\ Parses(messageFiles[MessagePath(WriterMessage(1))])
             /\ Unmarshal(messageFiles[MessagePath(WriterMessage(1))])
                   \in {WriterMessage(w) : w \in Writers}

\* Two ingests of the same key have saved, the second after waiting for the
\* first, and a listing in between has returned the record of the first.
C22_Witness ==
    /\ \A w \in Writers : probe.writers[w].pc = "done" /\ probe.writers[w].err = "nil"
    /\ probe.reader.pc = "done"
    /\ probe.reader.list # <<>>
    /\ Unmarshal(messageFiles[MessagePath(WriterMessage(1))]) \notin Range(probe.reader.list)
    /\ Range(probe.reader.list) \subseteq {WriterMessage(w) : w \in Writers}

(***************************************************************************)
(* Specification of the channel store                                      *)
(***************************************************************************)

\* The JSON object of a Filter: its fields under their json tags.
EncodeFilter(f) == [type |-> f.Type, keywords |-> f.Keywords, enabled |-> f.Enabled]

DecodeFilter(o) == Filter(o.type, o.keywords, o.enabled)

\* The JSON object of a Channel: its fields under their json tags.
EncodeChannel(c) ==
    [id |-> c.ID, username |-> c.Username, title |-> c.Title, added_by |-> c.AddedBy,
     added_at |-> c.AddedAt,
     filters |-> [i \in 1..Len(c.Filters) |-> EncodeFilter(c.Filters[i])],
     last_update |-> c.LastUpdate, is_active |-> c.IsActive]

\* json.Unmarshal into a Channel.
DecodeChannel(o) ==
    Channel(o.id, o.username, o.title, o.added_by, o.added_at,
            [i \in 1..Len(o.filters) |-> DecodeFilter(o.filters[i])],
            o.last_update, o.is_active)

\* The channels callers save: two versions each of channel 42 and channel 43.
SavedChannels ==
    {StoredChannel(42, <<>>, TRUE), StoredChannel(42, IncludeA, FALSE),
     StoredChannel(43, <<>>, TRUE), StoredChannel(43, IncludeA, TRUE)}

\* A caller runs SaveChannel(channel); the store's lock makes the call one step.
CallSaveChannel ==
    /\ \E channel \in SavedChannels : \E res \in SaveChannel(channelFiles, channel) :
          /\ channelFiles' = res.files
          /\ probe' = [op |-> "SaveChannel", id |-> channel.ID, channel |-> channel,
                       err |-> res.err]
    /\ UNCHANGED <<messageFiles, now, ingestVars, commandVars, monitorVars>>

\* A caller runs GetChannel(channelID).
CallGetChannel ==
    /\ \E channelID \in ChannelIds : \E res \in GetChannel(channelFiles, channelID) :
          probe' = [op |-> "GetChannel", id |-> channelID, channel |-> res.channel,
                    err |-> res.err]
    /\ UNCHANGED <<storeVars, ingestVars, commandVars, monitorVars>>

\* A caller runs DeleteChannel(channelID).
CallDeleteChannel ==
    /\ \E channelID \in ChannelIds : \E res \in DeleteChannel(channelFiles, channelID) :
          /\ channelFiles' = res.files
          /\ probe' = [op |-> "DeleteChannel", id |-> channelID, channel |-> ZeroChannel,
                       err |-> res.err]
    /\ UNCHANGED <<messageFiles, now, ingestVars, commandVars, monitorVars>>

InitChannelStore ==
    /\ channelFiles = EmptyDir
    /\ IdleStore /\ IdleIngests /\ IdleCommands /\ IdleMonitor
    /\ probe = [op |-> "none", id |-> <<>>, channel |-> ZeroChannel, err |-> "nil"]

NextChannelStore == CallSaveChannel \/ CallGetChannel \/ CallDeleteChannel

SpecChannelStore == InitChannelStore /\ [][NextChannelStore]_vars

(***************************************************************************)
(* C23: save, get and delete on the channel store                          *)
(***************************************************************************)

\* What GetChannel returns when reading the file system does not fail.
GetChannelRead(files, channelID) ==
    {res \in GetChannel(files, channelID) : res.err # "read"}

\* The files that hold a record of channelID.
RecordsOf(files, channelID) ==
    {p \in DOMAIN files : Parses(files[p]) /\ Unmarshal(files[p]).ID = channelID}

CallGetAllChannels ==
    /\ probe.pc = "call"
    /\ probe.op = "GetAllChannels"
    /\ \E res \in GetAllChannels(channelFiles) :
          probe' = [probe EXCEPT !.pc = "done", !.res = res]
    /\ UNCHANGED <<storeVars, ingestVars, commandVars, monitorVars>>

\* The channels directories listed: channel 42 absent, stored or with a
\* truncated file, channel 43 absent or stored.
ListingChannelDirs ==
    LET dirs == {ChannelDir(a \cup b) :
                    a \in {{}, {StoredChannel(42, <<>>, TRUE)}},
                    b \in {{}, {StoredChannel(43, <<>>, FALSE)}}}
    IN  dirs \cup {WriteFile(d, ChannelPath(FmtInt(42)), Truncated) : d \in dirs}

\* The calls probed: GetMessages with every limit, and GetAllChannels.
ListingCalls ==
    {c \in FeedCalls : c.op = "GetMessages"}
    \cup {[pc |-> "call", op |-> "GetAllChannels", channelID |-> <<>>, limit |-> 0,
           baseURL |-> <<>>, res |-> NoResult]}

InitListing ==
    /\ channelFiles \in ListingChannelDirs
    /\ messageFiles \in FeedMessageDirs
    /\ now = 1
    /\ probe \in ListingCalls
    /\ IdleIngests /\ IdleCommands /\ IdleMonitor

NextListing == CallListing \/ CallGetAllChannels

SpecListing == InitListing /\ [][NextListing]_vars

(***************************************************************************)
(* C24: listing is best-effort                                             *)
(***************************************************************************)

\* The message files of a channel that a call could read and parse.
GoodMessageFiles(files, channelID, unreadable) ==
    {p \in DOMAIN files : p[1] = channelID /\ p[2] \notin unreadable /\ Parses(files[p])}

\* C24: a listing fails only when the directory cannot be listed.  Otherwise
\* GetAllChannels returns the record of every file it could read and parse,
\* each once, and GetMessages returns min(limit, n) of the n records it could
\* read and parse, the ones whose names come last, a skipped file taking no
\* place of the limit; with limit >= n these are all of them.
C24_ListingBestEffort ==
    probe.pc = "done" =>
        /\ probe.res.err \in {"nil", "readdir"}
        /\ probe.op = "GetAllChannels" /\ probe.res.err = "nil" =>
              LET good == {p \in DOMAIN channelFiles \ probe.res.skipped :
                              Parses(channelFiles[p])}
              IN  /\ Range(probe.res.list) = {Unmarshal(channelFiles[p]) : p \in good}
                  /\ Len(probe.res.list) = Cardinality(good)
        /\ probe.op = "GetMessages" /\ probe.res.err = "nil" =>
              LET good == GoodMessageFiles(messageFiles, probe.channelID,
                                           probe.res.unreadable)
                  k == Min(probe.limit, Cardinality(good))
                  later(p) == {q \in good : LexLess(p[2], q[2])}
              IN  /\ Len(probe.res.list) = k
                  /\ Range(probe.res.list)
                        = {Unmarshal(messageFiles[p]) :
                              p \in {q \in good : Cardinality(later(q)) < k}}
                  /\ Cardinality(Range(probe.res.list)) = k

\* GetMessages with limit 2 has returned two Messages from a directory of
\* three files, having skipped one that does not parse.
C24_Witness ==
    /\ probe.pc = "done" /\ probe.op = "GetMessages" /\ probe.res.err = "nil"
    /\ probe.limit = 2
    /\ Len(probe.res.list) = 2
    /\ probe.res.unreadable = {}
    /\ \E p \in DOMAIN messageFiles :
          /\ ~Parses(messageFiles[p])
          /\ \E q \in GoodMessageFiles(messageFiles, probe.channelID, {}) :
                LexLess(q[2], p[2])

(***************************************************************************)
(* C25: an ingest that stores a Message sets the Channel's lastUpdate      *)
(***************************************************************************)

\* The time the single ingest of the comparison starts at.
IngestStart == 1

\* LastUpdate of the record stored for a channel.
StoredLastUpdate(files, channelID) == Unmarshal(files[ChannelPath(channelID)]).LastUpdate

\* The modular implementation stored the Message and then the Channel.
ModularStored ==
    /\ ing[1].pc = "done" /\ ing[1].ret = "nil" /\ ing[1].err = "nil"
    /\ ing[1].message # ZeroMessage

\* The flat implementation stored the Message; it has no Channel save that
\* could fail.
FlatStored == probe.pc = "done" /\ probe.decision = "accepted"

\* C25: after every ingest that persists a Message successfully (and whose
\* Channel save succeeds), the stored Channel's lastUpdate is a time not
\* earlier than the start of that ingest, in the modular ProcessMessage and
\* in the flat processChannelPost.
C25_IngestSetsLastUpdate ==
    /\ ModularStored =>
          StoredLastUpdate(channelFiles, ing[1].channel.ID) >= IngestStart
    /\ FlatStored =>
          \A post \in posts :
              StoredLastUpdate(probe.channelFiles, FmtInt(post.ChatID)) >= IngestStart

\* What holds: the modular ProcessMessage sets lastUpdate to the time of its
\* Channel save.
C25_ModularSetsLastUpdate ==
    ModularStored =>
        /\ StoredLastUpdate(channelFiles, ing[1].channel.ID) >= IngestStart
        /\ StoredLastUpdate(channelFiles, ing[1].channel.ID) = now - 1

\* The flat implementation has stored a Message.
C25_FlatStoredWitness == FlatStored /\ probe.messageFiles # EmptyDir

(***************************************************************************)
(* Specification of the rendering of one message                           *)
(***************************************************************************)

\* truncate(msg.Text, 100)
TitleLimit == 100

\* Code points of the rendered texts: 'a', U+00E4 and < > & " '.
RenderRunes == {97, 228, 60, 62, 38, 34, 39}

\* The texts rendered: none, one or two code points, alone or after 98, 99
\* or 100 times 'a'.
RenderTexts ==
    LET tails == {<<>>} \cup {<<r>> : r \in RenderRunes}
                 \cup {<<r, q>> : r \in RenderRunes, q \in RenderRunes}
    IN  {[i \in 1..n |-> 97] \o t :
            n \in {0, TitleLimit - 2, TitleLimit - 1, TitleLimit}, t \in tails}

\* "photo"
MediaTypePhoto == <<112, 104, 111, 116, 111>>

\* The media rendered: none, a photo, a photo with the caption "<".
RenderMedia ==
    {<<>>, <<Media(MediaTypePhoto, <<102>>, <<>>)>>,
     <<Media(MediaTypePhoto, <<102>>, <<60>>)>>}

\* The message of chat 42 rendered.
RenderedMessage(text, media) ==
    Message(7, FmtInt(42), TitleOf(42), text, 100) @@ [Media |-> media]

InitRender ==
    /\ channelFiles = ChannelDir({StoredChannel(42, <<>>, TRUE)})
    /\ \E text \in RenderTexts : \E media \in RenderMedia :
          messageFiles = WriteFile(EmptyDir, MessagePath(RenderedMessage(text, media)),
                                   Marshal(RenderedMessage(text, media)))
    /\ now = 1
    /\ probe \in {c \in FeedCalls : c.op = "GenerateFeed"}
    /\ IdleIngests /\ IdleCommands /\ IdleMonitor

NextRender == CallGenerateFeed

SpecRender == InitRender /\ [][NextRender]_vars

(***************************************************************************)
(* C26: the entry title                                                    *)
(***************************************************************************)

\* The stored Message an item was made from.
MessageOf(item) ==
    CHOOSE m \in StoredMessages(messageFiles) :
        item.Id = m.ChannelID \o <<45>> \o FmtInt(m.ID)

\* C26: the entry title equals the message text when the text has at most
\* 100 bytes, and otherwise is the first 100 bytes of the text followed by
\* "...", 103 bytes in all; a text of exactly 100 bytes is not truncated.
C26_TitleTruncation ==
    FeedReturned =>
        \A i \in 1..Len(probe.res.feed.Items) :
            LET item == probe.res.feed.Items[i]
                text == Bytes(MessageOf(item).Text)
            IN  IF Len(text) <= TitleLimit
                THEN item.Title = text
                ELSE /\ Len(item.Title) = TitleLimit + 3
                     /\ \A k \in 1..TitleLimit : item.Title[k] = text[k]
                     /\ \A k \in 1..3 : item.Title[TitleLimit + k] = 46

\* A feed has an entry whose text of 101 bytes was cut in the middle of
\* U+00E4, and which has 103 bytes.
C26_Witness ==
    /\ FeedReturned
    /\ \E i \in 1..Len(probe.res.feed.Items) :
          LET item == probe.res.feed.Items[i]
              text == Bytes(MessageOf(item).Text)
          IN  /\ Len(text) = TitleLimit + 1
              /\ text[TitleLimit] = 195
              /\ Len(item.Title) = TitleLimit + 3

(***************************************************************************)
(* C27: the entry rich-content and the feed title                          *)
(***************************************************************************)

\* < > & " '
Specials == {60, 62, 38, 34, 39}

\* The longest entity, "&quot;".
EntityMax == 6

\* The part of a content between the leading "<p>" and the first '<' after it.
EscapedBody(content) ==
    LET end == CHOOSE k \in 4..Len(content) :
                   content[k] = 60 /\ \A j \in 4..(k - 1) : content[j] # 60
    IN  SubSeq(content, 4, end - 1)

\* The positions of an escaped string that are not inside an entity, an
\* entity running from a '&' to the next ';'.
TokenStarts(e) ==
    {p \in 1..Len(e) :
        ~\E a \in (p - EntityMax + 1)..(p - 1) :
            a >= 1 /\ e[a] = 38 /\ \A k \in a..(p - 1) : e[k] # 59}

\* e is body with each of < > & " ' replaced by an entity, '&', letters,
\* digits or '#', ';', and every other code point unchanged: the i-th token
\* of e stands for the i-th code point of body.
IsEscapeOf(e, body) ==
    LET starts == TokenStarts(e)
    IN  /\ Cardinality(starts) = Len(body)
        /\ \A p \in starts :
              LET i == Cardinality({q \in starts : q <= p})
              IN  IF body[i] \in Specials
                  THEN /\ e[p] = 38
                       /\ \E z \in (p + 2)..(p + EntityMax - 1) :
                             /\ z <= Len(e) /\ e[z] = 59
                             /\ \A k \in (p + 1)..(z - 1) :
                                   e[k] = 35 \/ e[k] \in 48..57 \/ e[k] \in 97..122
                  ELSE e[p] = body[i]

\* C27: for every message, the entry rich-content begins with "<p>", the
\* escaped body and "</p>", the body being the text or "No text content"
\* followed by the media lines; the escaped body is the body with each of
\* < > & " ' replaced by an entity and every other code point unchanged, so
\* it holds no raw <, >, " or '; and the feed title is the channel title
\* followed by " - RSS Feed".
C27_ContentEscaped ==
    FeedReturned /\ probe.res.err = "nil" =>
        /\ probe.res.feed.Title
              = Unmarshal(channelFiles[ChannelPath(probe.channelID)]).Title \o RSSFeedSuffix
        /\ \A i \in 1..Len(probe.res.feed.Items) :
              LET item == probe.res.feed.Items[i]
                  text == MessageOf(item).Text
                  head == IF text = <<>> THEN NoTextContent ELSE text
                  body == item.Description
                  e == EscapedBody(item.Content)
              IN  /\ SubSeq(body, 1, Len(head)) = head
                  /\ SubSeq(item.Content, 1, 3) = <<60, 112, 62>>
                  /\ SubSeq(item.Content, 4 + Len(e), 7 + Len(e)) = <<60, 47, 112, 62>>
                  /\ \A k \in 1..Len(e) : e[k] \notin {60, 62, 34, 39}
                  /\ IsEscapeOf(e, body)

\* A feed has an entry for a text with an apostrophe and an ampersand and
\* for a photo whose caption is "<".
C27_Witness ==
    /\ FeedReturned /\ probe.res.err = "nil"
    /\ \E i \in 1..Len(probe.res.feed.Items) :
          LET m == MessageOf(probe.res.feed.Items[i])
          IN  /\ m.Text = <<39, 38>>
              /\ Len(m.Media) = 1 /\ m.Media[1].Caption = <<60>>

(***************************************************************************)
(* C28: filters that do not take part                                      *)
(***************************************************************************)

\* A filter that is enabled and not a ByAuthor filter.
TakesPart(filter) == filter.Enabled /\ filter.Type # FilterTypeAuthor

\* C28: passesFilters returns true for the empty filter sequence, and for any
\* filter sequence and text, removing every disabled filter and every
\* ByAuthor filter from the sequence does not change the result.
C28_DisabledAndAuthorIgnored ==
    probe.pc = "done" =>
        /\ probe.filters = <<>> => probe.result
        /\ probe.result = passesFilters(SelectSeq(probe.filters, TakesPart), probe.text)

\* passesFilters has admitted a text under a disabled include filter whose
\* keyword the text lacks, followed by an enabled ByAuthor filter.
C28_Witness ==
    /\ probe.pc = "done" /\ probe.result
    /\ Len(probe.filters) = 2
    /\ probe.filters[1] = Filter(FilterTypeKeywords, <<(<<97>>)>>, FALSE)
    /\ probe.filters[2].Type = FilterTypeAuthor /\ probe.filters[2].Enabled
    /\ probe.text = <<228>>

(***************************************************************************)
(* Specification of one filter under both filter engines                   *)
(***************************************************************************)

\* The keyword lists probed: none, empty keywords only, an empty keyword
\* before and after "a", "a" alone.
EmptyKeywordLists ==
    {<<>>, << <<>> >>, << <<>>, <<>> >>, << <<>>, <<97>> >>, << <<97>>, <<>> >>,
     << <<97>> >>}

\* A call of the flat h.passesFilters(channel, msg) for the same filters and
\* a post with the same text.
CallFlatPassesFilters ==
    /\ probe.flat = "none"
    /\ probe' = [probe EXCEPT !.flat =
                    IF flatPassesFilters(probe.filters, Post(42, 7, probe.text, <<>>, 100))
                    THEN "true" ELSE "false"]
    /\ UNCHANGED <<storeVars, ingestVars, commandVars, monitorVars>>

InitKeyword ==
    /\ probe \in {[pc |-> "call", filters |-> F, text |-> T, result |-> FALSE,
                   flat |-> "none"] :
                    F \in {<<>>} \cup {<<Filter(t, ks, e)>> :
                                          t \in FilterTypes, ks \in EmptyKeywordLists,
                                          e \in BOOLEAN},
                    T \in Texts}
    /\ channelFiles = EmptyDir
    /\ IdleStore /\ IdleIngests /\ IdleCommands /\ IdleMonitor

NextKeyword == CallPassesFilters \/ CallFlatPassesFilters

SpecKeyword == InitKeyword /\ [][NextKeyword]_vars

(***************************************************************************)
(* C29: the empty keyword                                                  *)
(***************************************************************************)

\* The keywords of a filter are all the empty string.
AllEmpty(filter) == \A i \in 1..Len(filter.Keywords) : filter.Keywords[i] = <<>>

\* The filters with their empty keywords removed.
WithoutEmptyKeywords(filters) ==
    LET nonEmpty(k) == k # <<>>
    IN  [i \in 1..Len(filters) |->
            [filters[i] EXCEPT !.Keywords = SelectSeq(@, nonEmpty)]]

\* What an engine must answer for the filters probed when the empty keyword
\* matches nothing: an enabled include filter whose keywords are all empty
\* rejects, an enabled exclude filter whose keywords are all empty admits.
EmptyKeywordVerdict(admitted) ==
    \A i \in 1..Len(probe.filters) :
        LET f == probe.filters[i]
        IN  f.Enabled /\ AllEmpty(f) =>
               /\ f.Type = FilterTypeKeywords => ~admitted
               /\ f.Type = FilterTypeExcludeKeywords => admitted

\* C29: a keyword that is the empty string never matches any text, the empty
\* text included, in contains and in containsKeyword: an enabled include
\* filter whose keywords are all empty rejects every text, an enabled exclude
\* filter whose keywords are all empty rejects none, and removing the empty
\* keywords of a filter does not change what either engine answers.
C29_EmptyKeywordNeverMatches ==
    /\ \A text \in {probe.text, <<>>} :
          ~contains(text, <<>>) /\ ~containsKeyword(text, <<>>)
    /\ probe.pc = "done" =>
          /\ EmptyKeywordVerdict(probe.result)
          /\ probe.result = passesFilters(WithoutEmptyKeywords(probe.filters), probe.text)
    /\ probe.flat # "none" =>
          /\ EmptyKeywordVerdict(probe.flat = "true")
          /\ (probe.flat = "true")
                = flatPassesFilters(WithoutEmptyKeywords(probe.filters),
                                    Post(42, 7, probe.text, <<>>, 100))

\* Both engines have rejected the empty text under an enabled include filter
\* whose two keywords are empty.
C29_Witness ==
    /\ probe.pc = "done" /\ ~probe.result /\ probe.flat = "false"
    /\ probe.text = <<>>
    /\ probe.filters = <<Filter(FilterTypeKeywords, << <<>>, <<>> >>, TRUE)>>

(***************************************************************************)
(* C30: /addfilter and the posts ingested after it                         *)
(***************************************************************************)

\* Posts of chat 42 arrive while filters are added to it: the channel is
\* registered and active, no other command is sent.
InitAddFilter ==
    /\ channelFiles = ChannelDir({StoredChannel(42, <<>>, TRUE)})
    /\ messageFiles = EmptyDir
    /\ now = 1
    /\ posts = {Post(42, 7, <<97>>, <<>>, 100), Post(42, 8, <<228>>, <<>>, 101)}
    /\ ing = [w \in Workers |-> IdleIngest]
    /\ cmds = {c \in CommandsSent : c.Op = "addfilter"}
    /\ hnd = [h \in Handlers |-> IdleHandler]
    /\ allowedUsers = {1}
    /\ userFiles = EmptyDir
    /\ IdleMonitor /\ IdleProbe

NextAddFilter ==
    \/ \E w \in Workers : Ingest(w)
    \/ \E h \in Handlers : HandleAddFilter(h) \/ HandleAddFilterSave(h)

SpecAddFilter == InitAddFilter /\ [][NextAddFilter]_vars

\* The filter the handler of an addfilter command builds.
AddedFilter(h) == Filter(FilterTypeKeywords, hnd[h].cmd.Keywords, TRUE)

\* The handler has answered "Filter added".
FilterAdded(h) == hnd[h].pc = "done" /\ hnd[h].reply = "added"

\* Some keyword is a case-insensitive substring of the text.
ContainsSome(text, keywords) ==
    \E i \in 1..Len(keywords) :
        /\ keywords[i] # <<>>
        /\ StringsContains(StringsToLower(text), StringsToLower(keywords[i]))

\* The filters stored for a channel, none when no record of it parses.
StoredFilters(files, channelID) ==
    IF ChannelPath(channelID) \in DOMAIN files /\ Parses(files[ChannelPath(channelID)])
    THEN Unmarshal(files[ChannelPath(channelID)]).Filters
    ELSE <<>>

\* The step in which a handler saves the channel and answers "Filter added"
\* stores the filters that were stored before followed by the new filter.
AppendsToStored(h) ==
    hnd[h].pc = "saveFilter" /\ hnd'[h].reply = "added" =>
        StoredFilters(channelFiles', hnd[h].cmd.Arg)
            = Append(StoredFilters(channelFiles, hnd[h].cmd.Arg), AddedFilter(h))

\* An ingest that starts for the channel after a handler answered "Filter
\* added" goes on to store its post only if the text contains a keyword.
AppliesAfterwards(h, w) ==
    /\ FilterAdded(h)
    /\ ing[w].pc = "idle" /\ ing'[w].pc = "process"
    /\ ing'[w].channel.ID = hnd[h].cmd.Arg
    => (~filtersReject(ing'[w].channel, ing'[w].text)
            => ContainsSome(ing'[w].text, hnd[h].cmd.Keywords))

\* C30: after a successful /addfilter an enabled include filter with the
\* keywords is appended at the end of the channel's filter list with the
\* existing filters unchanged, and every post ingested afterwards for that
\* channel is stored only if its effective text contains at least one of
\* the keywords.
C30_AddFilterApplies ==
    [][\A h \in Handlers : AppendsToStored(h) /\ \A w \in Workers : AppliesAfterwards(h, w)]_vars

\* What holds: the handler stores the filters it read followed by the new
\* filter, and an ingest that reads a channel holding the new filter stores
\* its post only if the text contains a keyword.
C30_AppliesWhileStored ==
    [][\A h \in Handlers :
          /\ hnd[h].pc = "saveFilter" /\ hnd'[h].reply = "added" =>
                StoredFilters(channelFiles', hnd[h].cmd.Arg)
                    = Append(hnd[h].channel.Filters, AddedFilter(h))
          /\ \A w \in Workers :
                /\ FilterAdded(h)
                /\ ing[w].pc = "idle" /\ ing'[w].pc = "process"
                /\ \E i \in 1..Len(ing'[w].channel.Filters) :
                      ing'[w].channel.Filters[i] = AddedFilter(h)
                => (~filtersReject(ing'[w].channel, ing'[w].text)
                        => ContainsSome(ing'[w].text, hnd[h].cmd.Keywords))]_vars

(***************************************************************************)
(* Specification of one /removefilter command                              *)
(***************************************************************************)

\* The word is a non-empty run of decimal digits.
IsDigits(word) == word # <<>> /\ \A i \in 1..Len(word) : word[i] \in 48..57

RECURSIVE DecimalValue(_)
\* The number a run of decimal digits writes.
DecimalValue(digits) ==
    IF digits = <<>> THEN 0
    ELSE 10 * DecimalValue(SubSeq(digits, 1, Len(digits) - 1)) + (digits[Len(digits)] - 48)

\* strconv.Atoi on a word short enough not to overflow: an optional sign and
\* decimal digits; (0, err) for anything else.
Atoi(word) ==
    LET signed == word # <<>> /\ word[1] \in {43, 45}
        digits == IF signed THEN Tail(word) ELSE word
    IN  IF ~IsDigits(digits) THEN [err |-> TRUE, n |-> 0]
        ELSE [err |-> FALSE,
              n |-> IF signed /\ word[1] = 45 THEN 0 - DecimalValue(digits)
                    ELSE DecimalValue(digits)]

\* A /removefilter message with the third word as it was typed; a word Atoi
\* fails on gives the index 0, which the handler turns away like the error.
RemoveFilterMessage(from, arg, word) ==
    RemoveFilterCommand(from, arg, Atoi(word).n) @@ [Word |-> word]

\* The third words sent: 0 1 2 3 4 -1 +2 01 x 1x
IndexWords ==
    {<<48>>, <<49>>, <<50>>, <<51>>, <<52>>, <<45, 49>>, <<43, 50>>, <<48, 49>>,
     <<120>>, <<49, 120>>}

\* Three filters that differ: include "a", exclude U+00C4, an author filter.
ThreeFilters ==
    <<Filter(FilterTypeKeywords, <<(<<97>>)>>, TRUE),
      Filter(FilterTypeExcludeKeywords, <<(<<196>>)>>, TRUE),
      Filter(FilterTypeAuthor, <<>>, FALSE)>>

\* Channel 42 is stored with none to three filters, user 1 is allowed, one
\* /removefilter message for channel 42 or the unknown 43 is handled; probe
\* keeps the channels directory as it was before the command.
InitRemoveFilter ==
    /\ \E n \in 0..3 :
          channelFiles = ChannelDir({StoredChannel(42, SubSeq(ThreeFilters, 1, n), TRUE)})
    /\ IdleStore
    /\ IdleIngests
    /\ \E u \in Users : \E id \in ChatIds : \E word \in IndexWords :
          cmds = {RemoveFilterMessage(u, FmtInt(id), word)}
    /\ hnd = [h \in Handlers |-> IdleHandler]
    /\ allowedUsers = {1}
    /\ userFiles = EmptyDir
    /\ StartedMonitor(channelFiles)
    /\ probe = [pc |-> "none", before |-> channelFiles]

NextRemoveFilter == HandleRemoveFilter(1) \/ HandleRemoveFilterSave(1)

SpecRemoveFilter == InitRemoveFilter /\ [][NextRemoveFilter]_vars

(***************************************************************************)
(* C31: /removefilter                                                      *)
(***************************************************************************)

\* The record stored for a channel before the command.
StoredBefore(channelID) == Unmarshal(probe.before[ChannelPath(channelID)])

\* The command names a stored channel and a filter of it, by a number.
NamesAFilter(cmd) ==
    /\ ChannelPath(cmd.Arg) \in DOMAIN probe.before
    /\ IsDigits(IF cmd.Word[1] = 43 THEN Tail(cmd.Word) ELSE cmd.Word)
    /\ DecimalValue(IF cmd.Word[1] = 43 THEN Tail(cmd.Word) ELSE cmd.Word)
          \in 1..Len(StoredBefore(cmd.Arg).Filters)

\* xs is ys without its i-th element, the others in their order.
IsWithout(xs, ys, i) ==
    /\ Len(xs) = Len(ys) - 1
    /\ \A k \in 1..Len(xs) : xs[k] = IF k < i THEN ys[k] ELSE ys[k + 1]

\* C31: /removefilter <channel_id> <i> with 1 <= i <= number of filters
\* removes exactly the i-th filter (1-based) of the stored channel and keeps
\* the other filters in their order and the rest of the record; for any
\* other index, a non-numeric index or an unknown channel the handler saves
\* nothing and the stored channel is left unchanged.
C31_RemoveFilterByIndex ==
    hnd[1].pc = "done" =>
        LET cmd == hnd[1].cmd
        IN  /\ hnd[1].reply = "removed" =>
                  /\ NamesAFilter(cmd)
                  /\ DOMAIN channelFiles = DOMAIN probe.before
                  /\ LET after == Unmarshal(channelFiles[ChannelPath(cmd.Arg)])
                     IN  /\ IsWithout(after.Filters, StoredBefore(cmd.Arg).Filters,
                                      Atoi(cmd.Word).n)
                         /\ [after EXCEPT !.Filters = <<>>]
                               = [StoredBefore(cmd.Arg) EXCEPT !.Filters = <<>>]
            /\ ~NamesAFilter(cmd) => hnd[1].reply = "none"
            /\ hnd[1].reply = "none" => channelFiles = probe.before

\* The second of three filters has been removed.
C31_Witness ==
    /\ hnd[1].pc = "done" /\ hnd[1].reply = "removed"
    /\ hnd[1].cmd.Word = <<50>>
    /\ Len(StoredBefore(hnd[1].cmd.Arg).Filters) = 3
    /\ Unmarshal(channelFiles[ChannelPath(hnd[1].cmd.Arg)]).Filters
          = <<ThreeFilters[1], ThreeFilters[3]>>

(***************************************************************************)
(* Specification of commands racing with a sweep and an ingest             *)
(***************************************************************************)

\* Channel 42 is registered, active and in the active set, with one filter.
\* User 1 sends /removechannel, /addfilter and /removefilter for it while a
\* post of it is ingested and the monitor sweeps.
InitRace ==
    /\ channelFiles = ChannelDir({StoredChannel(42, IncludeA, TRUE)})
    /\ IdleStore
    /\ posts = {Post(42, 7, <<97>>, <<>>, 100)}
    /\ ing = [w \in Workers |-> IdleIngest]
    /\ cmds = {Command("removechannel", 1, FmtInt(42), 0, <<>>, <<>>),
               Command("addfilter", 1, FmtInt(42), 0, <<>>, <<(<<228>>)>>),
               RemoveFilterCommand(1, FmtInt(42), 1)}
    /\ hnd = [h \in Handlers |-> IdleHandler]
    /\ allowedUsers = {1}
    /\ userFiles = EmptyDir
    /\ StartedMonitor(channelFiles) /\ IdleProbe

NextRace ==
    \/ Ingest(1)
    \/ HandleRemoveChannel(1) \/ HandleRemoveChannelDelete(1)
    \/ HandleAddFilter(1) \/ HandleAddFilterSave(1)
    \/ HandleRemoveFilter(1) \/ HandleRemoveFilterSave(1)
    \/ Tick \/ CheckChannels \/ SpawnUnit \/ LoopTick
    \/ \E u \in units : UnitFetch(u)
    \/ \E u \in units : UnitSave(u)

SpecRace == InitRace /\ [][NextRace]_vars

(***************************************************************************)
(* C32: a deleted Channel stays deleted                                    *)
(***************************************************************************)

\* The handler has answered "Channel removed" to a /removechannel.
ChannelRemoved(h) ==
    hnd[h].pc = "done" /\ hnd[h].cmd.Op = "removechannel" /\ hnd[h].reply = "removed"

\* C32: once a remove-channel command has successfully deleted a Channel,
\* the channel store holds no file for that id (no add-channel command is
\* sent in these runs), under every interleaving with sweep units and
\* ingests that read the Channel before the delete and save it afterwards.
C32_DeletedStaysDeleted ==
    \A h \in Handlers :
        ChannelRemoved(h) => ChannelPath(hnd[h].cmd.Arg) \notin DOMAIN channelFiles

\* What holds: the step of the delete that succeeds leaves no file for the
\* id, and a file that appears afterwards is written by a sweep unit or by
\* ProcessMessage from the Channel it read before.
C32_DeletedUntilWriteBack ==
    [][/\ \A h \in Handlers :
             ~ChannelRemoved(h) /\ ChannelRemoved(h)'
                 => ChannelPath(hnd[h].cmd.Arg) \notin DOMAIN channelFiles'
       /\ \A h \in Handlers :
             /\ ChannelRemoved(h)
             /\ ChannelPath(hnd[h].cmd.Arg) \notin DOMAIN channelFiles
             /\ ChannelPath(hnd[h].cmd.Arg) \in DOMAIN channelFiles'
             => \/ \E u \in units : u.pc = "save" /\ u \notin units'
                \/ ing[1].pc = "saveChannel" /\ ing'[1].pc = "done"]_vars

(***************************************************************************)
(* C33: write-backs and the filter list                                    *)
(***************************************************************************)

\* The handler has saved a filter list it changed.
FilterChangeSaved(h) ==
    /\ hnd[h].pc = "done"
    /\ \/ hnd[h].cmd.Op = "addfilter" /\ hnd[h].reply = "added"
       \/ hnd[h].cmd.Op = "removefilter" /\ hnd[h].reply = "removed"

\* The file of the channel holds a record.
HoldsRecord(files, channelID) ==
    ChannelPath(channelID) \in DOMAIN files /\ Parses(files[ChannelPath(channelID)])

\* C33: a filter-list change saved by an add-filter or remove-filter command
\* is never undone by the monitor or the ingestion pipeline: a step of a
\* sweep unit or of ProcessMessage that writes the Channel back leaves the
\* stored filters and isActive as the command set them.
C33_WriteBackKeepsFilters ==
    [][\A h \in Handlers :
          /\ FilterChangeSaved(h)
          /\ hnd' = hnd
          /\ HoldsRecord(channelFiles, hnd[h].cmd.Arg)
          /\ HoldsRecord(channelFiles', hnd[h].cmd.Arg)
          => LET before == Unmarshal(channelFiles[ChannelPath(hnd[h].cmd.Arg)])
                 after == Unmarshal(channelFiles'[ChannelPath(hnd[h].cmd.Arg)])
             IN  after.Filters = before.Filters /\ after.IsActive = before.IsActive]_vars

\* What holds: a write-back changes nothing but lastUpdate of the Channel it
\* read, so it keeps the filters when it read them after the command.
C33_WriteBackStoresSnapshot ==
    [][/\ \A u \in units :
             u.pc = "save" /\ u \notin units'
             /\ sweeps'[u.sweep].outcome[u.id] = "touched"
                 => [Unmarshal(channelFiles'[ChannelPath(u.id)]) EXCEPT !.LastUpdate = 0]
                       = [u.channel EXCEPT !.LastUpdate = 0]
       /\ ing[1].pc = "saveChannel" /\ ing'[1].pc = "done" /\ ing'[1].err = "nil"
             => [Unmarshal(channelFiles'[ChannelPath(ing[1].channel.ID)])
                    EXCEPT !.LastUpdate = 0]
                   = [ing[1].channel EXCEPT !.LastUpdate = 0]]_vars

(***************************************************************************)
(* Specification of one /removechannel command, modular and flat           *)
(***************************************************************************)

\* BotHandler.handleRemoveChannel up to h.storage.DeleteChannel: a sender
\* turned away and a failing delete end the command.
FlatHandleRemoveChannel(h) ==
    /\ probe.impl = "flat"
    /\ hnd[h].pc = "idle"
    /\ \E cmd \in {c \in cmds : c.Op = "removechannel"} :
          \E err \in GetUser(userFiles, cmd.From) :
             IF ~flatCheckAuthorization(cmd.From, allowedUsers, err)
             THEN /\ hnd' = [hnd EXCEPT ![h] = [@ EXCEPT !.pc = "done", !.cmd = cmd]]
                  /\ UNCHANGED channelFiles
             ELSE \E res \in DeleteChannel(channelFiles, cmd.Arg) :
                     /\ channelFiles' = res.files
                     /\ hnd' = [hnd EXCEPT ![h] =
                                  IF res.err = "nil"
                                  THEN [@ EXCEPT !.pc = "removeChannel", !.cmd = cmd]
                                  ELSE [@ EXCEPT !.pc = "done", !.cmd = cmd,
                                                 !.reply = "failed"]]
    /\ UNCHANGED <<messageFiles, now, ingestVars, cmds, allowedUsers, userFiles,
                   monitorVars, probe>>

\* BotHandler.handleRemoveChannel: h.channelMonitor.RemoveChannel(channelID),
\* answer "Channel removed".
FlatHandleRemoveChannelMonitor(h) ==
    /\ probe.impl = "flat"
    /\ hnd[h].pc = "removeChannel"
    /\ channels' = RemoveChannel(channels, hnd[h].cmd.Arg)
    /\ hnd' = [hnd EXCEPT ![h] = [@ EXCEPT !.pc = "done", !.reply = "removed"]]
    /\ UNCHANGED <<storeVars, ingestVars, cmds, allowedUsers, userFiles, bot, cancelled,
                   wg, syncStart, start, stop, loop, tick, units, sweeps, probe>>

\* Channels 42 and 43 are stored or not, each stored id is in the active set
\* or not, user 1 is allowed; one /removechannel message is handled by the
\* modular or by the flat handler.  probe keeps the channels directory and
\* the active set as they were before the command.
InitRemoveChannel ==
    /\ \E stored \in SUBSET ChatIds :
          channelFiles = ChannelDir({StoredChannel(c, <<>>, TRUE) : c \in stored})
    /\ IdleStore
    /\ IdleIngests
    /\ \E u \in Users : \E id \in ChatIds :
          cmds = {Command("removechannel", u, FmtInt(id), 0, <<>>, <<>>)}
    /\ hnd = [h \in Handlers |-> IdleHandler]
    /\ allowedUsers = {1}
    /\ userFiles = EmptyDir
    /\ \E active \in SUBSET ActiveIds(channelFiles) : RunningMonitor(active)
    /\ \E impl \in {"modular", "flat"} :
          probe = [pc |-> "none", impl |-> impl, before |-> channelFiles,
                   active |-> channels]

NextRemoveChannel ==
    \/ probe.impl = "modular" /\ HandleRemoveChannel(1)
    \/ probe.impl = "modular" /\ HandleRemoveChannelDelete(1)
    \/ FlatHandleRemoveChannel(1)
    \/ FlatHandleRemoveChannelMonitor(1)

SpecRemoveChannel == InitRemoveChannel /\ [][NextRemoveChannel]_vars

(***************************************************************************)
(* C34: a /removechannel whose delete fails                                *)
(***************************************************************************)

\* The handler has answered "Failed to remove channel".
RemoveFailed(h) ==
    hnd[h].pc = "done" /\ hnd[h].cmd.Op = "removechannel" /\ hnd[h].reply = "failed"

\* C34: when the store delete of a remove-channel command fails, the command
\* reports the failure and leaves both the channel store and the monitor's
\* active set unchanged, in the modular and in the flat handler.
C34_FailedRemoveChangesNothing ==
    RemoveFailed(1) => channelFiles = probe.before /\ channels = probe.active

\* What holds: a failed delete leaves the channel store unchanged; the flat
\* handler leaves the active set unchanged too, the modular one has taken
\* the id out of it before the delete.
C34_FailedRemoveKeepsStore ==
    RemoveFailed(1) =>
        /\ channelFiles = probe.before
        /\ channels = IF probe.impl = "flat" THEN probe.active
                      ELSE RemoveChannel(probe.active, hnd[1].cmd.Arg)

(***************************************************************************)
(* C35: the order of the filters                                           *)
(***************************************************************************)

\* The sequences that hold the elements of a sequence in another order.
Reorderings(seq) ==
    {[i \in 1..Len(seq) |-> seq[p[i]]] :
        p \in {q \in [1..Len(seq) -> 1..Len(seq)] :
                  \A i, j \in 1..Len(seq) : q[i] = q[j] => i = j}}

\* C35: the result of passesFilters does not depend on the order of the
\* filters: for every filter sequence F, every permutation F' of F and every
\* text T, passesFilters(F, T) = passesFilters(F', T); and the call modifies
\* neither the channel (its filters, the text) nor the store.
C35_OrderIndependent ==
    [][probe.pc = "call" /\ probe'.pc = "done" =>
          /\ \A F \in Reorderings(probe.filters) :
                passesFilters(F, probe.text) = probe'.result
          /\ probe'.filters = probe.filters /\ probe'.text = probe.text
          /\ UNCHANGED storeVars]_vars

\* passesFilters has rejected a text that the first filter admits and the
\* second rejects.
C35_Witness ==
    /\ probe.pc = "done" /\ ~probe.result
    /\ Len(probe.filters) = 2
    /\ ~filterRejects(probe.filters[1], probe.text)
    /\ filterRejects(probe.filters[2], probe.text)

(***************************************************************************)
(* Specification of a post whose channel lookup can fail                   *)
(***************************************************************************)

\* One post, handled by both implementations, the flat one on the copy of
\* the store in probe.  The record of channel 42 is absent, stored, or a
\* file that does not parse.
InitLookup ==
    /\ channelFiles \in
          EquivChannelDirs
          \cup {WriteFile(d, ChannelPath(FmtInt(42)), Truncated) : d \in EquivChannelDirs}
    /\ IdleStore
    /\ \E post \in IngestPosts : posts = {post}
    /\ ing = [w \in Workers |-> IdleIngest]
    /\ probe = [pc |-> "call", channelFiles |-> channelFiles,
                messageFiles |-> messageFiles, decision |-> "none", fault |-> FALSE]
    /\ IdleCommands /\ IdleMonitor

NextLookup == Ingest(1) \/ FlatProcessChannelPost

SpecLookup == InitLookup /\ [][NextLookup]_vars

(***************************************************************************)
(* C36: a failing channel lookup                                           *)
(***************************************************************************)

\* The store holds no record that GetChannel could return for the post.
LookupMustFail ==
    \A post \in posts : ~HoldsRecord(probe.channelFiles, FmtInt(post.ChatID))

\* C36: processChannelPost treats every failure of the channel lookup, not
\* found, a read error or a record that does not parse, as a silent no-op:
\* the call returns after the lookup, no Message is saved, no Channel is
\* written and no error is reported, in the modular and in the flat handler.
C36_LookupFailureIsNoOp ==
    /\ ing[1].pc = "done" =>
          /\ LookupMustFail => ing[1].ret = "none"
          /\ ing[1].ret = "none" =>
                /\ messageFiles = EmptyDir
                /\ channelFiles = probe.channelFiles
                /\ ~ing[1].logged
    /\ ing[1].pc \notin {"idle", "done"} => ~LookupMustFail
    /\ probe.pc = "done" =>
          /\ LookupMustFail => probe.decision = "ignored"
          /\ probe.decision = "ignored" => probe.messageFiles = EmptyDir

\* Both handlers have returned on a post whose channel record does not parse.
C36_Witness ==
    /\ ing[1].pc = "done" /\ ing[1].ret = "none" /\ probe.pc = "done"
    /\ \E post \in posts :
          /\ ChannelPath(FmtInt(post.ChatID)) \in DOMAIN channelFiles
          /\ ~Parses(channelFiles[ChannelPath(FmtInt(post.ChatID))])

(***************************************************************************)
(* Specification of one /addchannel command                                *)
(***************************************************************************)

\* Channel 42 is stored with none, one or three filters, active or not,
\* channel 43 is stored or not, the active set is what Start loaded, user 1
\* is allowed; one /addchannel message for 42 or 43 is handled.  probe keeps
\* the channels directory and the time as they were before the command.
InitAddChannel ==
    /\ \E fs \in {<<>>, IncludeA, ThreeFilters} : \E a \in BOOLEAN :
       \E others \in SUBSET {StoredChannel(43, <<>>, TRUE)} :
          channelFiles = ChannelDir({StoredChannel(42, fs, a)} \cup others)
    /\ IdleStore
    /\ IdleIngests
    /\ \E u \in Users : \E id \in ChatIds :
          cmds = {Command("addchannel", u, <<64>> \o UsernameOf(id), id, TitleOf(id), <<>>)}
    /\ hnd = [h \in Handlers |-> IdleHandler]
    /\ allowedUsers = {1}
    /\ userFiles = EmptyDir
    /\ StartedMonitor(channelFiles)
    /\ probe = [pc |-> "none", before |-> channelFiles, start |-> now]

NextAddChannel == HandleAddChannel(1) \/ HandleAddChannelMonitor(1)

SpecAddChannel == InitAddChannel /\ [][NextAddChannel]_vars

(***************************************************************************)
(* C37: /addchannel for a registered id                                    *)
(***************************************************************************)

\* The handler has answered "Channel added" for an id that had a record.
Reregistered(h) ==
    /\ hnd[h].pc = "done" /\ hnd[h].reply = "registered"
    /\ ChannelPath(FmtInt(hnd[h].cmd.ChatID)) \in DOMAIN probe.before

\* C37: a successful add-channel command for an id that is already
\* registered replaces the stored Channel record: afterwards its filter list
\* is empty, isActive is true, addedAt and lastUpdate are times read during
\* the command, the id is in the monitor's active set, and the records of
\* the other channels are as before.
C37_AddChannelReplaces ==
    Reregistered(1) =>
        LET id == FmtInt(hnd[1].cmd.ChatID)
            rec == Unmarshal(channelFiles[ChannelPath(id)])
        IN  /\ rec.ID = id
            /\ rec.Filters = <<>>
            /\ rec.IsActive
            /\ rec.AddedBy = hnd[1].cmd.From
            /\ rec.AddedAt >= probe.start /\ rec.AddedAt < now
            /\ rec.LastUpdate >= rec.AddedAt /\ rec.LastUpdate < now
            /\ id \in channels
            /\ DOMAIN channelFiles = DOMAIN probe.before
            /\ \A p \in DOMAIN channelFiles \ {ChannelPath(id)} :
                  channelFiles[p] = probe.before[p]

\* Channel 42, stored inactive with three filters, has been registered again.
C37_Witness ==
    /\ Reregistered(1)
    /\ hnd[1].cmd.ChatID = 42
    /\ LET old == Unmarshal(probe.before[ChannelPath(FmtInt(42))])
       IN  Len(old.Filters) = 3 /\ ~old.IsActive
    /\ Unmarshal(channelFiles[ChannelPath(FmtInt(42))]).Filters = <<>>

(***************************************************************************)
(* Specification of removing a channel and registering it again            *)
(***************************************************************************)

\* Channel 42 is stored, active or not, with no or one filter; its messages
\* directory holds any of the ids 2, 9, 10, each file parseable or
\* truncated; user 1 is allowed.  A /removechannel and then an /addchannel
\* message for 42 are handled, and then its feed is generated.  probe keeps
\* the messages directory as it was before the commands.
InitReregister ==
    /\ \E fs \in {<<>>, IncludeA} : \E a \in BOOLEAN :
          channelFiles = ChannelDir({StoredChannel(42, fs, a)})
    /\ \E ids \in SUBSET {2, 9, 10} : \E broken \in SUBSET {2, 9, 10} :
          messageFiles = MessageDir(ids, broken)
    /\ now = 1
    /\ IdleIngests
    /\ cmds = {Command("removechannel", 1, FmtInt(42), 0, <<>>, <<>>),
               Command("addchannel", 1, <<64>> \o UsernameOf(42), 42, TitleOf(42), <<>>)}
    /\ hnd = [h \in Handlers |-> IdleHandler]
    /\ allowedUsers = {1}
    /\ userFiles = EmptyDir
    /\ StartedMonitor(channelFiles)
    /\ probe = [pc |-> "call", op |-> "GenerateFeed", channelID |-> FmtInt(42),
                limit |-> 0, baseURL |-> BaseURL, res |-> NoResult,
                messages |-> messageFiles]

\* The /removechannel message was answered "Channel removed" and the
\* /addchannel message after it "Channel added".
RegisteredAgain ==
    /\ hnd[1].pc = "done" /\ hnd[1].reply = "removed"
    /\ hnd[2].pc = "done" /\ hnd[2].reply = "registered"

NextReregister ==
    \/ HandleRemoveChannel(1)
    \/ HandleRemoveChannelDelete(1)
    \/ hnd[1].pc = "done" /\ HandleAddChannel(2)
    \/ HandleAddChannelMonitor(2)
    \/ RegisteredAgain /\ CallGenerateFeed

SpecReregister == InitReregister /\ [][NextReregister]_vars

(***************************************************************************)
(* C38: DeleteChannel leaves the Messages                                  *)
(***************************************************************************)

\* The Messages of a channel that can be parsed in a messages directory.
MessagesOf(files, channelID) ==
    {Unmarshal(files[p]) : p \in {q \in DOMAIN files : q[1] = channelID /\ Parses(files[q])}}

\* C38: DeleteChannel removes only the Channel record: the message store is
\* as it was before the command, and the feed generated after the same id
\* has been registered again has one item for each Message stored before
\* (as long as every file was read and they fit the window of 50).
C38_DeleteKeepsMessages ==
    /\ messageFiles = probe.messages
    /\ /\ FeedReturned
       /\ probe.res.err = "nil"
       /\ probe.res.unreadable = {}
       /\ Cardinality(MessagesOf(probe.messages, probe.channelID)) <= FeedWindow
       => LET earlier == MessagesOf(probe.messages, probe.channelID)
              items == probe.res.feed.Items
          IN  /\ Len(items) = Cardinality(earlier)
              /\ \A m \in earlier : \E i \in 1..Len(items) : items[i] = messageToFeedItem(m)

\* The record of 42 was removed and written again, and the feed generated
\* afterwards has the three Messages stored before.
C38_Witness ==
    /\ RegisteredAgain
    /\ FeedReturned /\ probe.res.err = "nil" /\ probe.res.unreadable = {}
    /\ Cardinality(MessagesOf(probe.messages, FmtInt(42))) = 3
    /\ Len(probe.res.feed.Items) = 3

====
